---- MODULE Spec2Model ----
(***************************************************************************)
(* A model of the secp256k1 core of bitcoin_reuni: S256Field arithmetic,   *)
(* the S256Point group law, ECDSA sign / verify of PrivateKey and          *)
(* S256Point, the DER and SEC codecs, and the generic FieldElement and     *)
(* Point of ec/, whose elements carry their own prime; and of its wire     *)
(* formats: Base58, Varint, Script (parse, serialize, evaluate) and        *)
(* Transaction (parse, serialize), byte for byte at the sizes of the       *)
(* source.                                                                 *)
(*                                                                         *)
(* Scaling.  TLC cannot compute with 256-bit integers, so the model keeps  *)
(* the curve y^2 = x^3 + 7 and every algorithm of the source, and scales   *)
(* the numbers: a U256 is WordBytes = 2 bytes wide instead of 32, the      *)
(* field prime is 967 and the group order is 907.  The scaled parameters   *)
(* keep the properties of secp256k1 the code relies on: prime = 3 mod 4,   *)
(* prime = 1 mod 3, the group order n is prime, n < prime < 2^(8*width),   *)
(* there is no point with x = 0 or y = 0, and some points have an          *)
(* x coordinate in [n, prime).  The generator is the point (707, 275),     *)
(* whose double (908, 861) is one of those points.                         *)
(*                                                                         *)
(* BigUint is arbitrary precision; with these parameters every value the   *)
(* source forms in BigUint stays below 2^31, so TLC's integers are exact.  *)
(***************************************************************************)
EXTENDS Integers, Sequences, FiniteSets, TLC

VARIABLES
    pc,        \* which operation ran last
    secret,    \* PrivateKey.secret
    z,         \* the message scalar
    hmac_v,    \* the values v takes at private_key.rs:89 for (secret, z)
    point,     \* PrivateKey.point, the public point handed to verify
    sig,       \* the Signature returned by sign (or the one handed to verify / der)
    sig2,      \* the Signature returned by a second sign of the same inputs
    verdict,   \* the outcome of S256Point::verify
    wire,      \* the bytes produced by der / sec / compressed_sec, or received
    decoded,   \* the outcome of parse_der / parse_sec
    args,      \* the operands of a FieldElement / Point operation
    outcome    \* the outcome of a FieldElement / Point operation

vars == <<pc, secret, z, hmac_v, point, sig, sig2, verdict, wire, decoded, args, outcome>>

----------------------------------------------------------------------------
(* Bounds of the model *)

MaxSecret == 2      \* secrets 1..MaxSecret (and n-1)
MaxZ == 910         \* message scalars 0..MaxZ: every residue mod n, and z > n
MaxNonce == 2       \* nonce candidates 0..MaxNonce (and n-1, n, the top word)
MaxRounds == 2      \* iterations of the candidate loop of deterministic_k
MaxSigWord == 2     \* r and s handed to verify: 0..MaxSigWord (and n-1, n, n+1, the top word)
MaxDerWord == 257   \* r and s handed to der: 1..MaxDerWord
MaxDerLen == 8      \* length of the byte strings handed to parse_der
MaxPointScalar == 906  \* the points handed to sec: k*G for k in 1..MaxPointScalar
MaxSecLen == 5         \* bytes in a received SEC string
MaxSecByte == 4        \* largest byte value in a received SEC string
MaxCoordinate == 224   \* coordinates 0..MaxCoordinate handed to Point::new
MaxScalar == 16        \* scalars 0..MaxScalar multiply every accepted point
MaxGroupScalar == 908  \* scalars 0..MaxGroupScalar multiply the generator
MaxFieldNum == 13      \* FieldElement nums 0..MaxFieldNum, besides those around the prime

----------------------------------------------------------------------------
(* Scaled program constants *)

WordBytes == 2                       \* a U256 is 32 bytes in the source
WordMod == 65536                     \* 2^(8 * WordBytes)
MaxWord == WordMod - 1

\* S256Field::prime(): 2^256 - 2^32 - 977 in the source
prime == 967

\* Secp256K1EllipticCurve::n(), the order of the generator
n == 907

ec_a == 0
ec_b == 7

U256 == 0 .. MaxWord

----------------------------------------------------------------------------
(* ec/utils.rs: arithmetic through BigUint *)

RECURSIVE BigModPow(_, _, _)
\* BigUint::modpow: square and multiply, base reduced first
BigModPow(value, exp, modulus) ==
    IF modulus = 1 THEN 0
    ELSE IF exp = 0 THEN 1
    ELSE LET half == BigModPow(value, exp \div 2, modulus)
             sq   == (half * half) % modulus
         IN  IF exp % 2 = 1 THEN (sq * (value % modulus)) % modulus ELSE sq

u256_modpow(value, exp, modulus) == BigModPow(value, exp, modulus)

u256_modmul(lhs, rhs, modulus) == (lhs * rhs) % modulus

u256_is_even(v) == v % 2 = 0

----------------------------------------------------------------------------
(* s256_field.rs: an S256Field is modelled by its num; its prime is always *)
(* S256Field::prime()                                                      *)

S256Field_new(num) == num

RECURSIVE PowExp(_)
\* the "while exp < zero()" loop of pow
PowExp(exp) == IF exp < 0 THEN PowExp(exp + (prime - 1)) ELSE exp

S256Field_pow(self, exp) ==
    LET e == PowExp(exp) % (prime - 1)
    IN  S256Field_new(BigModPow(self, e, prime))

S256Field_sqrt(self) == BigModPow(self, (prime + 1) \div 4, prime)

S256Field_add(self, rhs) == S256Field_new((self + rhs) % prime)

RECURSIVE AddPrimeWhileNegative(_)
AddPrimeWhileNegative(num) ==
    IF num < 0 THEN AddPrimeWhileNegative(num + prime) ELSE num

S256Field_sub(self, rhs) ==
    LET num == IF self >= rhs THEN (self - rhs) % prime
               ELSE 0 - ((rhs - self) % prime)
    IN  S256Field_new(AddPrimeWhileNegative(num))

S256Field_mul(self, rhs) == S256Field_new((self * rhs) % prime)

S256Field_div(self, rhs) ==
    S256Field_new((self * BigModPow(rhs, prime - 2, prime)) % prime)

----------------------------------------------------------------------------
(* s256_point.rs: points *)

InfPoint == [tag |-> "InfPoint", x |-> 0, y |-> 0]
NormalPoint(x, y) == [tag |-> "NormalPoint", x |-> x, y |-> y]
\* Err(PointError::NotInEllipticCurves)
NotInEllipticCurves == [tag |-> "NotInEllipticCurves", x |-> 0, y |-> 0]
\* the thread panicked: expect / unwrap on an error or None
PointPanic == [tag |-> "Panic", x |-> 0, y |-> 0]

S256Point_new(x, y) ==
    LET left  == S256Field_pow(y, 2)
        right == S256Field_add(S256Field_add(S256Field_pow(x, 3),
                                             S256Field_mul(ec_a, x)), ec_b)
    IN  IF left # right THEN NotInEllipticCurves ELSE NormalPoint(x, y)

\* .expect("Point add error")
Expect(res) == IF res.tag = "NormalPoint" THEN res ELSE PointPanic

gen_point == Expect(S256Point_new(S256Field_new(707), S256Field_new(275)))

S256Point_add(self, rhs) ==
    IF self.tag = "Panic" \/ rhs.tag = "Panic" THEN PointPanic
    ELSE IF self.tag = "InfPoint" THEN rhs
    ELSE IF rhs.tag = "InfPoint" THEN self
    ELSE IF self.x = rhs.x
         THEN IF self.y = rhs.y
              THEN IF self.y = 0 THEN InfPoint
                   ELSE LET s == S256Field_div(
                                   S256Field_add(S256Field_mul(3, S256Field_pow(self.x, 2)), ec_a),
                                   S256Field_mul(2, self.y))
                            ret_x == S256Field_sub(S256Field_pow(s, 2), S256Field_mul(2, self.x))
                            ret_y == S256Field_sub(S256Field_mul(s, S256Field_sub(self.x, ret_x)), self.y)
                        IN  Expect(S256Point_new(ret_x, ret_y))
              ELSE InfPoint
         ELSE LET s == S256Field_div(S256Field_sub(rhs.y, self.y), S256Field_sub(rhs.x, self.x))
                  ret_x == S256Field_sub(S256Field_sub(S256Field_pow(s, 2), self.x), rhs.x)
                  ret_y == S256Field_sub(S256Field_mul(s, S256Field_sub(self.x, ret_x)), self.y)
              IN  Expect(S256Point_new(ret_x, ret_y))

RECURSIVE MulLoop(_, _, _)
\* the double-and-add loop of Mul for S256Point
MulLoop(coef, current, result) ==
    IF coef > 0
    THEN MulLoop(coef \div 2,
                 S256Point_add(current, current),
                 IF coef % 2 = 1 THEN S256Point_add(result, current) ELSE result)
    ELSE result

\* Mul<T> for S256Point with the lowest bit of the coefficient dropped
S256Point_mul_shifted(self, rhs) == MulLoop((rhs % n) \div 2, self, InfPoint)

S256Point_mul(self, rhs) == MulLoop(rhs % n, self, InfPoint)

----------------------------------------------------------------------------
(* signature.rs and private_key.rs: ECDSA *)

Signature(r, s) == [tag |-> "ok", r |-> r, s |-> s]
\* the call did not return: the thread panicked
SigPanic == [tag |-> "panic", r |-> 0, s |-> 0]
NoSig == [tag |-> "none", r |-> 0, s |-> 0]

RECURSIVE CandidateLoop(_, _)
\* the loop of deterministic_k: the first candidate in [1, n)
CandidateLoop(v, i) ==
    IF i > Len(v) THEN 0
    ELSE IF v[i] >= 1 /\ v[i] < n THEN v[i]
    ELSE CandidateLoop(v, i + 1)

\* deterministic_k without the range test of line 91
deterministic_k_unchecked(v) == v[1]

\* HMAC-SHA256 is an external function of (secret, z): v is the sequence of
\* values it yields for them at line 89
deterministic_k(v) == CandidateLoop(v, 1)

\* "while k > n { k = U256::from_random() }": the values k can have after
\* it, from_random drawing from the same words as the candidates
NonceAfterLoop(k0) ==
    IF k0 > n THEN {k \in (0 .. MaxNonce) \cup {n - 1, n, MaxWord} : ~(k > n)} ELSE {k0}

\* sign without the low-s step
low_s_skipped(s) == s

\* "if s > n / 2 { s = n - s }"
low_s(s) == IF s > n \div 2 THEN n - s ELSE s

\* s before the low-s step
sign_s(sk, zz, r, k) ==
    LET k_inv == BigModPow(k, n - 2, n)
    IN  ((zz + r * sk) * k_inv) % n

\* PrivateKey::sign from line 35 on, k being the nonce the loop left
sign(sk, zz, k) ==
    LET kG == S256Point_mul(gen_point, k)
    IN  IF kG.tag # "NormalPoint" THEN SigPanic
        ELSE LET r == kG.x
             IN  Signature(r, low_s(sign_s(sk, zz, r, k)))

\* t of S256Point::verify
verify_t(self, zz, sg) ==
    LET s_inv == u256_modpow(sg.s, n - 2, n)
        u == u256_modmul(zz, s_inv, n)
        v == u256_modmul(sg.r, s_inv, n)
    IN  S256Point_add(S256Point_mul(gen_point, u), S256Point_mul(self, v))

verify(self, zz, sg) ==
    LET t == verify_t(self, zz, sg)
    IN  IF t.tag # "NormalPoint" THEN "panic"
        ELSE IF sg.r = t.x THEN "true" ELSE "false"

----------------------------------------------------------------------------
(* Bytes *)

RECURSIVE Pow256(_)
Pow256(i) == IF i = 0 THEN 1 ELSE 256 * Pow256(i - 1)

\* U256::to_big_endian
to_big_endian(v) == [i \in 1 .. WordBytes |-> (v \div Pow256(WordBytes - i)) % 256]

RECURSIVE from_big_endian(_)
\* U256::from_big_endian of at most WordBytes bytes
from_big_endian(bytes) ==
    IF bytes = <<>> THEN 0
    ELSE 256 * from_big_endian(SubSeq(bytes, 1, Len(bytes) - 1)) + bytes[Len(bytes)]

Bytes(b) == [tag |-> "ok", bytes |-> b]
BytesPanic == [tag |-> "panic", bytes |-> <<>>]
NoBytes == [tag |-> "none", bytes |-> <<>>]

\* &bytes[from..to] of Rust (0-based, to exclusive), where it does not panic
Slice(bytes, from, to) == SubSeq(bytes, from + 1, to)
SliceOk(bytes, from, to) == from <= to /\ to <= Len(bytes)

----------------------------------------------------------------------------
(* signature.rs: DER *)

NonZeroByte(b) == b # 0

u256_der(v) ==
    LET buf == to_big_endian(v)
        ret == SelectSeq(buf, NonZeroByte)
    IN  IF ret = <<>> THEN BytesPanic        \* expect("VecDeque is empty")
        ELSE LET padded == IF ret[1] >= 128 THEN <<0>> \o ret ELSE ret
             IN  Bytes(<<2, Len(padded) % 256>> \o padded)

der(sg) ==
    LET rd == u256_der(sg.r)
        sd == u256_der(sg.s)
    IN  IF rd.tag = "panic" \/ sd.tag = "panic" THEN BytesPanic
        ELSE LET ret == rd.bytes \o sd.bytes
             IN  Bytes(<<48, Len(ret) % 256>> \o ret)

\* the result of parse_der_u256: [tag |-> "ok", v |-> the U256] or a panic
U256Ok(v) == [tag |-> "ok", v |-> v]
U256Panic == [tag |-> "panic", v |-> 0]

parse_der_u256(bytes) ==
    IF Len(bytes) < 1 THEN U256Panic                 \* bytes[0]
    ELSE IF bytes[1] # 2 THEN U256Panic              \* assert_eq!(bytes[0], 2)
    ELSE IF Len(bytes) < 2 THEN U256Panic            \* bytes[1]
    ELSE IF bytes[2] > WordBytes + 1 THEN U256Panic  \* assert!(len <= 33)
    ELSE IF Len(bytes) < 3 THEN U256Panic            \* bytes[2]
    ELSE LET len == bytes[2]
             from == IF bytes[3] = 0 THEN 3 ELSE 2
         IN  IF ~SliceOk(bytes, from, 2 + len) THEN U256Panic
             ELSE LET slice == Slice(bytes, from, 2 + len)
                  IN  IF Len(slice) > WordBytes THEN U256Panic  \* 32 - slice.len()
                      ELSE U256Ok(from_big_endian(slice))

parse_der(der_bytes) ==
    IF Len(der_bytes) < 1 THEN SigPanic                       \* der_bytes[0]
    ELSE IF der_bytes[1] # 48 THEN SigPanic                   \* assert_eq!
    ELSE IF Len(der_bytes) < 2 THEN SigPanic                  \* der_bytes[1]
    ELSE IF ~(Len(der_bytes) > der_bytes[2] + 1) THEN SigPanic \* assert!
    ELSE IF Len(der_bytes) < 4 THEN SigPanic                  \* der_bytes[3]
    ELSE LET r_len == der_bytes[4]
         IN  IF ~SliceOk(der_bytes, 2, 4 + r_len) THEN SigPanic
             ELSE LET r == parse_der_u256(Slice(der_bytes, 2, 4 + r_len))
                  IN  IF r.tag = "panic" THEN SigPanic
                      ELSE IF Len(der_bytes) < 6 + r_len THEN SigPanic  \* der_bytes[5 + r_len]
                      ELSE LET s_len == der_bytes[6 + r_len]
                           IN  IF ~SliceOk(der_bytes, 4 + r_len, 6 + r_len + s_len)
                               THEN SigPanic
                               ELSE LET s == parse_der_u256(
                                               Slice(der_bytes, 4 + r_len, 6 + r_len + s_len))
                                    IN  IF s.tag = "panic" THEN SigPanic
                                        ELSE Signature(r.v, s.v)

----------------------------------------------------------------------------
(* s256_point.rs: SEC *)

\* S256Point::coordinate is None for the point at infinity
sec(self) ==
    IF self.tag # "NormalPoint" THEN BytesPanic
    ELSE Bytes(<<4>> \o to_big_endian(self.x) \o to_big_endian(self.y))

compressed_sec(self) ==
    IF self.tag # "NormalPoint" THEN BytesPanic
    ELSE Bytes(<<IF u256_is_even(self.y) THEN 2 ELSE 3>> \o to_big_endian(self.x))

\* parse_sec taking the computed root whatever its parity
select_beta_first_root(beta, is_even) == beta

\* lines 214-226 of parse_sec: the root whose parity is_even asks for
select_beta(beta, is_even) ==
    LET even_beta == IF u256_is_even(beta) THEN beta ELSE S256Field_new(prime - beta)
        odd_beta  == IF u256_is_even(beta) THEN S256Field_new(prime - beta) ELSE beta
    IN  IF is_even THEN even_beta ELSE odd_beta

parse_sec(sec_bytes) ==
    IF ~(Len(sec_bytes) >= 1 + WordBytes) THEN PointPanic      \* assert!
    ELSE IF sec_bytes[1] = 4
    THEN IF ~SliceOk(sec_bytes, 1 + WordBytes, 1 + 2 * WordBytes) THEN PointPanic
         ELSE LET x == S256Field_new(from_big_endian(Slice(sec_bytes, 1, 1 + WordBytes)))
                  y == S256Field_new(from_big_endian(
                           Slice(sec_bytes, 1 + WordBytes, 1 + 2 * WordBytes)))
              IN  Expect(S256Point_new(x, y))
    ELSE LET is_even == sec_bytes[1] = 2
             x == S256Field_new(from_big_endian(Slice(sec_bytes, 1, 1 + WordBytes)))
             alpha == S256Field_add(S256Field_pow(x, 3), ec_b)
             beta == S256Field_sqrt(alpha)
         IN  Expect(S256Point_new(x, select_beta(beta, is_even)))

----------------------------------------------------------------------------
(* The signing specification: PrivateKey::new, sign, sign again, verify *)

Secrets == (1 .. MaxSecret) \cup {n - 1}
Messages == 0 .. MaxZ
Candidates == (0 .. MaxNonce) \cup {n - 1, n, MaxWord}
Streams == UNION {[1 .. len -> Candidates] : len \in 1 .. MaxRounds}
InRange(c) == c >= 1 /\ c < n

Idle ==
    /\ point = InfPoint
    /\ sig = NoSig
    /\ sig2 = NoSig
    /\ verdict = "none"
    /\ wire = NoBytes
    /\ decoded = NoSig
    /\ args = <<>>
    /\ outcome = <<>>

\* HMAC-SHA256 is a function: the stream is fixed by (secret, z); the loop
\* of deterministic_k ends at the first candidate in range
Init ==
    /\ pc = "start"
    /\ secret \in Secrets
    /\ z \in Messages
    /\ hmac_v \in {v \in Streams :
                      /\ InRange(v[Len(v)])
                      /\ \A i \in 1 .. Len(v) - 1 : ~InRange(v[i])}
    /\ Idle

\* PrivateKey::new
NewKey ==
    /\ pc = "start"
    /\ point' = S256Point_mul(gen_point, secret)
    /\ pc' = "keyed"
    /\ UNCHANGED <<secret, z, hmac_v, sig, sig2, verdict, wire, decoded, args, outcome>>

\* PrivateKey::sign
Sign ==
    /\ pc = "keyed"
    /\ hmac_v # <<>>
    /\ \E k \in NonceAfterLoop(deterministic_k(hmac_v)) : sig' = sign(secret, z, k)
    /\ pc' = "signed"
    /\ UNCHANGED <<secret, z, hmac_v, point, sig2, verdict, wire, decoded, args, outcome>>

\* PrivateKey::sign, a second call with the same inputs
SignAgain ==
    /\ pc = "signed"
    /\ \E k \in NonceAfterLoop(deterministic_k(hmac_v)) : sig2' = sign(secret, z, k)
    /\ pc' = "signed2"
    /\ UNCHANGED <<secret, z, hmac_v, point, sig, verdict, wire, decoded, args, outcome>>

\* S256Point::verify of the signature that sign returned
Verify ==
    /\ pc = "signed2"
    /\ sig.tag = "ok"
    /\ verdict' = verify(point, z, sig)
    /\ pc' = "verified"
    /\ UNCHANGED <<secret, z, hmac_v, point, sig, sig2, wire, decoded, args, outcome>>

Next == NewKey \/ Sign \/ SignAgain \/ Verify

Spec == Init /\ [][Next]_vars

----------------------------------------------------------------------------
(* The verification specification: verify of any signature *)

SigWords == (0 .. MaxSigWord) \cup {n - 1, n, n + 1, MaxWord}

InitVerify ==
    /\ pc = "start"
    /\ secret \in Secrets
    /\ z \in Messages
    /\ hmac_v = <<>>
    /\ Idle

\* S256Point::verify of a signature received from outside
VerifyAny ==
    /\ pc = "keyed"
    /\ hmac_v = <<>>
    /\ \E r \in SigWords, s \in SigWords :
          /\ sig' = Signature(r, s)
          /\ verdict' = verify(point, z, Signature(r, s))
    /\ pc' = "checked"
    /\ UNCHANGED <<secret, z, hmac_v, point, sig2, wire, decoded, args, outcome>>

NextVerify == NewKey \/ VerifyAny

SpecVerify == InitVerify /\ [][NextVerify]_vars

----------------------------------------------------------------------------
(* The DER specification: der of a signature, parse_der of bytes *)

DerWords == 1 .. MaxDerWord
DerAlphabet == {0, 1, 2, 6, 48}
WireStrings == UNION {[1 .. len -> DerAlphabet] : len \in 0 .. MaxDerLen}

InitDer ==
    /\ secret = 0 /\ z = 0 /\ hmac_v = <<>>
    /\ point = InfPoint /\ sig2 = NoSig /\ verdict = "none" /\ decoded = NoSig
    /\ args = <<>> /\ outcome = <<>>
    /\ \/ /\ pc = "der_start"
          /\ \E r \in DerWords, s \in DerWords : sig = Signature(r, s)
          /\ wire = NoBytes
       \/ /\ pc = "der_received"
          /\ sig = NoSig
          /\ \E w \in WireStrings : wire = Bytes(w)

\* Signature::der
Der ==
    /\ pc = "der_start"
    /\ wire' = der(sig)
    /\ pc' = "der_encoded"
    /\ UNCHANGED <<secret, z, hmac_v, point, sig, sig2, verdict, decoded, args, outcome>>

\* Signature::parse_der
ParseDer ==
    /\ pc \in {"der_encoded", "der_received"}
    /\ wire.tag = "ok"
    /\ decoded' = parse_der(wire.bytes)
    /\ pc' = IF pc = "der_encoded" THEN "der_round_trip" ELSE "der_parsed"
    /\ UNCHANGED <<secret, z, hmac_v, point, sig, sig2, verdict, wire, args, outcome>>

NextDer == Der \/ ParseDer

SpecDer == InitDer /\ [][NextDer]_vars

----------------------------------------------------------------------------
(* The SEC specification: sec / compressed_sec of a point, parse_sec *)

InitSec ==
    /\ pc = "sec_start"
    /\ secret \in 1 .. MaxPointScalar
    /\ z = 0 /\ hmac_v = <<>>
    /\ sig = NoSig /\ sig2 = NoSig /\ verdict = "none" /\ wire = NoBytes
    /\ point = S256Point_mul(gen_point, secret)
    /\ decoded = InfPoint
    /\ args = <<>> /\ outcome = <<>>

\* S256Point::sec
Sec ==
    /\ pc = "sec_start"
    /\ wire' = sec(point)
    /\ pc' = "sec_encoded"
    /\ UNCHANGED <<secret, z, hmac_v, point, sig, sig2, verdict, decoded, args, outcome>>

\* S256Point::compressed_sec
CompressedSec ==
    /\ pc = "sec_start"
    /\ wire' = compressed_sec(point)
    /\ pc' = "sec_encoded"
    /\ UNCHANGED <<secret, z, hmac_v, point, sig, sig2, verdict, decoded, args, outcome>>

\* S256Point::parse_sec
ParseSec ==
    /\ pc = "sec_encoded"
    /\ wire.tag = "ok"
    /\ decoded' = parse_sec(wire.bytes)
    /\ pc' = "sec_round_trip"
    /\ UNCHANGED <<secret, z, hmac_v, point, sig, sig2, verdict, wire, args, outcome>>

NextSec == Sec \/ CompressedSec \/ ParseSec

SpecSec == InitSec /\ [][NextSec]_vars

----------------------------------------------------------------------------
(* The SEC decoding specification: parse_sec of bytes received from outside *)

SecAlphabet == 0 .. MaxSecByte
SecStrings == UNION {[1 .. len -> SecAlphabet] : len \in 0 .. MaxSecLen}

InitSecParse ==
    /\ pc = "sec_received"
    /\ wire \in {Bytes(b) : b \in SecStrings}
    /\ secret = 0 /\ z = 0 /\ hmac_v = <<>>
    /\ sig = NoSig /\ sig2 = NoSig /\ verdict = "none"
    /\ point = InfPoint /\ decoded = InfPoint
    /\ args = <<>> /\ outcome = <<>>

\* S256Point::parse_sec of received bytes
ParseSecReceived ==
    /\ pc = "sec_received"
    /\ decoded' = parse_sec(wire.bytes)
    /\ pc' = "sec_parsed"
    /\ UNCHANGED <<secret, z, hmac_v, point, sig, sig2, verdict, wire, args, outcome>>

NextSecParse == ParseSecReceived

SpecSecParse == InitSecParse /\ [][NextSecParse]_vars

----------------------------------------------------------------------------
(* ec/field_element.rs: the generic FieldElement, which carries its prime *)

FieldElement_new(num, p) == [tag |-> "FieldElement", num |-> num, prime |-> p]

\* panic!("{}", FieldElementError::NotSamePrime)
NotSamePrime == [tag |-> "NotSamePrime", num |-> 0, prime |-> 0]

RECURSIVE FieldPowExp(_, _)
\* the exponent of FieldElement::pow: prime - 1 is added while it is negative
FieldPowExp(exp, p) == IF exp < 0 THEN FieldPowExp(exp + (p - 1), p) ELSE exp

FieldElement_pow(self, exp) ==
    IF self.tag # "FieldElement" THEN NotSamePrime
    ELSE LET e == FieldPowExp(exp, self.prime) % (self.prime - 1)
         IN  FieldElement_new(BigModPow(self.num, e, self.prime), self.prime)

FieldElement_add(self, rhs) ==
    IF self.tag # "FieldElement" \/ rhs.tag # "FieldElement" THEN NotSamePrime
    ELSE IF self.prime # rhs.prime THEN NotSamePrime
    ELSE FieldElement_new((self.num + rhs.num) % self.prime, self.prime)

RECURSIVE AddWhileNegative(_, _)
AddWhileNegative(num, p) == IF num < 0 THEN AddWhileNegative(num + p, p) ELSE num

FieldElement_sub(self, rhs) ==
    IF self.tag # "FieldElement" \/ rhs.tag # "FieldElement" THEN NotSamePrime
    ELSE IF self.prime # rhs.prime THEN NotSamePrime
    ELSE LET num == IF self.num >= rhs.num
                    THEN (self.num - rhs.num) % self.prime
                    ELSE 0 - ((rhs.num - self.num) % self.prime)
         IN  FieldElement_new(AddWhileNegative(num, self.prime), self.prime)

\* Mul<Self> for FieldElement with the product taken in the U256 word
FieldElement_mul_wrapping(self, rhs) ==
    IF self.tag # "FieldElement" \/ rhs.tag # "FieldElement" THEN NotSamePrime
    ELSE IF self.prime # rhs.prime THEN NotSamePrime
    ELSE FieldElement_new(((self.num * rhs.num) % WordMod) % self.prime, self.prime)

FieldElement_mul(self, rhs) ==
    IF self.tag # "FieldElement" \/ rhs.tag # "FieldElement" THEN NotSamePrime
    ELSE IF self.prime # rhs.prime THEN NotSamePrime
    ELSE FieldElement_new((self.num * rhs.num) % self.prime, self.prime)

\* Mul<FieldElement> for U256
U256_mul(self, rhs) ==
    IF rhs.tag # "FieldElement" THEN NotSamePrime
    ELSE FieldElement_new((self * rhs.num) % rhs.prime, rhs.prime)

\* Div<Self> for FieldElement with the exponent prime - 1 instead of prime - 2
FieldElement_div_fermat_one(self, rhs) ==
    IF self.tag # "FieldElement" \/ rhs.tag # "FieldElement" THEN NotSamePrime
    ELSE LET t == self.prime - 1
         IN  FieldElement_new((self.num * BigModPow(rhs.num, t, self.prime)) % self.prime,
                              self.prime)

\* Div<Self> for FieldElement: the primes are not compared, self.prime is used
FieldElement_div(self, rhs) ==
    IF self.tag # "FieldElement" \/ rhs.tag # "FieldElement" THEN NotSamePrime
    ELSE LET t == self.prime - 2
         IN  FieldElement_new((self.num * BigModPow(rhs.num, t, self.prime)) % self.prime,
                              self.prime)

----------------------------------------------------------------------------
(* The field specification: two FieldElements and one operation on them *)

FieldPrimes == {2, 3, 13, 19, 223, prime, 46337}
FieldNums(p) == {k \in (0 .. MaxFieldNum) \cup (p - 2 .. p + 1) : k >= 0}
FieldElements == {FieldElement_new(num, p) : <<num, p>> \in
                     UNION {FieldNums(q) \X {q} : q \in FieldPrimes}}
PowExps == {0 - 3, 0 - 1, 0, 1, 2, 3}

InitField ==
    /\ pc = "field_start"
    /\ args \in FieldElements \X FieldElements
    /\ outcome = <<>>
    /\ secret = 0 /\ z = 0 /\ hmac_v = <<>>
    /\ point = InfPoint /\ sig = NoSig /\ sig2 = NoSig /\ verdict = "none"
    /\ wire = NoBytes /\ decoded = NoSig

\* Add<Self> for FieldElement
FieldAdd ==
    /\ pc = "field_start"
    /\ pc' = "field_add"
    /\ outcome' = FieldElement_add(args[1], args[2])
    /\ UNCHANGED <<secret, z, hmac_v, point, sig, sig2, verdict, wire, decoded, args>>

\* Sub<Self> for FieldElement
FieldSub ==
    /\ pc = "field_start"
    /\ pc' = "field_sub"
    /\ outcome' = FieldElement_sub(args[1], args[2])
    /\ UNCHANGED <<secret, z, hmac_v, point, sig, sig2, verdict, wire, decoded, args>>

\* Mul<Self> for FieldElement
FieldMul ==
    /\ pc = "field_start"
    /\ pc' = "field_mul"
    /\ outcome' = FieldElement_mul(args[1], args[2])
    /\ UNCHANGED <<secret, z, hmac_v, point, sig, sig2, verdict, wire, decoded, args>>

\* Div<Self> for FieldElement
FieldDiv ==
    /\ pc = "field_start"
    /\ pc' = "field_div"
    /\ outcome' = FieldElement_div(args[1], args[2])
    /\ UNCHANGED <<secret, z, hmac_v, point, sig, sig2, verdict, wire, decoded, args>>

\* FieldElement::pow
FieldPow ==
    /\ pc = "field_start"
    /\ pc' = "field_pow"
    /\ \E exp \in PowExps :
           outcome' = [exp |-> exp, value |-> FieldElement_pow(args[1], exp)]
    /\ UNCHANGED <<secret, z, hmac_v, point, sig, sig2, verdict, wire, decoded, args>>

\* the inverse of a as a.pow(-1), its inverse again, and a * a.pow(-1)
FieldPowInverse ==
    /\ pc = "field_start"
    /\ pc' = "field_pow_inverse"
    /\ LET a == args[1]
           inv == FieldElement_pow(a, 0 - 1)
       IN  outcome' = [inv |-> inv, back |-> FieldElement_pow(inv, 0 - 1),
                       unit |-> FieldElement_mul(a, inv)]
    /\ UNCHANGED <<secret, z, hmac_v, point, sig, sig2, verdict, wire, decoded, args>>

\* the inverse of a as 1 / a, its inverse again, and a * (1 / a)
FieldDivInverse ==
    /\ pc = "field_start"
    /\ pc' = "field_div_inverse"
    /\ LET a == args[1]
           one == FieldElement_new(1, a.prime)
           inv == FieldElement_div(one, a)
       IN  outcome' = [inv |-> inv, back |-> FieldElement_div(one, inv),
                       unit |-> FieldElement_mul(a, inv)]
    /\ UNCHANGED <<secret, z, hmac_v, point, sig, sig2, verdict, wire, decoded, args>>

\* (x / a) * a
FieldDivMul ==
    /\ pc = "field_start"
    /\ pc' = "field_div_mul"
    /\ outcome' = FieldElement_mul(FieldElement_div(args[1], args[2]), args[2])
    /\ UNCHANGED <<secret, z, hmac_v, point, sig, sig2, verdict, wire, decoded, args>>

\* Add<Self>, Sub<Self> and Mul<Self> for S256Field
S256FieldOps ==
    /\ pc = "field_start"
    /\ args[1].prime = prime /\ args[2].prime = prime
    /\ pc' = "s256_field_ops"
    /\ LET a == S256Field_new(args[1].num)
           b == S256Field_new(args[2].num)
       IN  outcome' = [add |-> S256Field_add(a, b), sub |-> S256Field_sub(a, b),
                       mul |-> S256Field_mul(a, b)]
    /\ UNCHANGED <<secret, z, hmac_v, point, sig, sig2, verdict, wire, decoded, args>>

NextField ==
    \/ FieldAdd \/ FieldSub \/ FieldMul \/ FieldDiv \/ FieldPow
    \/ FieldPowInverse \/ FieldDivInverse \/ FieldDivMul \/ S256FieldOps

SpecField == InitField /\ [][NextField]_vars

----------------------------------------------------------------------------
(* ec/point.rs: the generic Point on y^2 = x^3 + a*x + b *)

\* Point { point: PointValue::NormalPoint { x, y }, elliptic_curve: (a, b) }
Point_normal(x, y, a, b) == [tag |-> "NormalPoint", x |-> x, y |-> y, a |-> a, b |-> b]
\* Point::inf
Point_inf(a, b) == [tag |-> "InfPoint", a |-> a, b |-> b]
\* Err(PointError::NotInEllipticCurves)
Point_NotInEllipticCurves == [tag |-> "NotInEllipticCurves"]
\* the thread panicked with this message
Point_panic(msg) == [tag |-> "Panic", msg |-> msg]

Point_new(x, y, a, b) ==
    LET left  == FieldElement_pow(y, 2)
        right == FieldElement_add(
                     FieldElement_add(FieldElement_pow(x, 3), FieldElement_mul(a, x)), b)
    IN  IF left = NotSamePrime \/ right = NotSamePrime THEN Point_panic("NotSamePrime Error")
        ELSE IF left # right THEN Point_NotInEllipticCurves
        ELSE Point_normal(x, y, a, b)

\* Point::new(..).expect("Point add error")
Point_expect(res) ==
    IF res.tag = "NotInEllipticCurves" THEN Point_panic("Point add error") ELSE res

\* Add<Point> for Point returning Infinity only for P.y != Q.y on a vertical line
Point_add_no_tangent_check(self, rhs) ==
    IF self.tag = "Panic" THEN self
    ELSE IF rhs.tag = "Panic" THEN rhs
    ELSE IF self.a # rhs.a \/ self.b # rhs.b
    THEN Point_panic("NotInSameEllipticCurves Error")
    ELSE IF self.tag = "InfPoint" THEN rhs
    ELSE IF rhs.tag = "InfPoint" THEN self
    ELSE LET a == self.a
             b == self.b
             x == self.x
             y == self.y
         IN  IF x = rhs.x
             THEN IF y = rhs.y
                  THEN LET s == FieldElement_div(
                                    FieldElement_add(U256_mul(3, FieldElement_pow(x, 2)), a),
                                    U256_mul(2, y))
                           ret_x == FieldElement_sub(FieldElement_pow(s, 2), U256_mul(2, x))
                           ret_y == FieldElement_sub(
                                        FieldElement_mul(s, FieldElement_sub(x, ret_x)), y)
                       IN  Point_expect(Point_new(ret_x, ret_y, a, b))
                  ELSE Point_inf(a, b)
             ELSE LET s == FieldElement_div(FieldElement_sub(rhs.y, y),
                                            FieldElement_sub(rhs.x, x))
                      ret_x == FieldElement_sub(
                                   FieldElement_sub(FieldElement_pow(s, 2), x), rhs.x)
                      ret_y == FieldElement_sub(
                                   FieldElement_mul(s, FieldElement_sub(x, ret_x)), y)
                  IN  Point_expect(Point_new(ret_x, ret_y, a, b))

Point_add(self, rhs) ==
    IF self.tag = "Panic" THEN self
    ELSE IF rhs.tag = "Panic" THEN rhs
    ELSE IF self.a # rhs.a \/ self.b # rhs.b
    THEN Point_panic("NotInSameEllipticCurves Error")
    ELSE IF self.tag = "InfPoint" THEN rhs
    ELSE IF rhs.tag = "InfPoint" THEN self
    ELSE LET a == self.a
             b == self.b
             x == self.x
             y == self.y
         IN  IF x = rhs.x
             THEN IF y = rhs.y
                  THEN IF y.num = 0 THEN Point_inf(a, b)
                       ELSE LET s == FieldElement_div(
                                         FieldElement_add(
                                             U256_mul(3, FieldElement_pow(x, 2)), a),
                                         U256_mul(2, y))
                                ret_x == FieldElement_sub(FieldElement_pow(s, 2),
                                                          U256_mul(2, x))
                                ret_y == FieldElement_sub(
                                             FieldElement_mul(s, FieldElement_sub(x, ret_x)),
                                             y)
                            IN  Point_expect(Point_new(ret_x, ret_y, a, b))
                  ELSE Point_inf(a, b)
             ELSE LET s == FieldElement_div(FieldElement_sub(rhs.y, y),
                                            FieldElement_sub(rhs.x, x))
                      ret_x == FieldElement_sub(
                                   FieldElement_sub(FieldElement_pow(s, 2), x), rhs.x)
                      ret_y == FieldElement_sub(
                                   FieldElement_mul(s, FieldElement_sub(x, ret_x)), y)
                  IN  Point_expect(Point_new(ret_x, ret_y, a, b))

RECURSIVE Point_mul_loop(_, _, _)
\* the double-and-add loop of Mul<T> for Point: result += current on a set
\* bit, then current is doubled, then coef is shifted
Point_mul_loop(coef, current, result) ==
    IF coef > 0
    THEN LET added   == IF coef % 2 = 1 THEN Point_add(result, current) ELSE result
             doubled == Point_add(current, current)
         IN  IF added.tag = "Panic" THEN added
             ELSE IF doubled.tag = "Panic" THEN doubled
             ELSE Point_mul_loop(coef \div 2, doubled, added)
    ELSE result

\* Mul<T> for Point with result starting at self instead of Infinity
Point_mul_from_self(self, rhs) == Point_mul_loop(rhs, self, self)

Point_mul(self, rhs) == Point_mul_loop(rhs, self, Point_inf(self.a, self.b))

----------------------------------------------------------------------------
(* The point construction specification: Point::new / S256Point::new of *)
(* two coordinates on a curve (a, b) over a prime                        *)

\* <<a, b, prime>>: the curve of the tests of ec/point.rs, a curve with a
\* point of order two, and the (scaled) secp256k1 curve
Curves == {<<0, 7, 223>>, <<1, 0, 13>>, <<ec_a, ec_b, prime>>}
\* the curves handed to Point::new: those and a curve over the field of 3
NewCurves == Curves \cup {<<1, 0, 3>>}
Coordinates(p) == {k \in 0 .. MaxCoordinate : k <= p + 1}

InitPointNew ==
    /\ pc = "new_start"
    /\ \E c \in NewCurves : \E x, y \in Coordinates(c[3]) :
           args = <<FieldElement_new(x, c[3]), FieldElement_new(y, c[3]),
                    FieldElement_new(c[1], c[3]), FieldElement_new(c[2], c[3])>>
    /\ outcome = <<>>
    /\ secret = 0 /\ z = 0 /\ hmac_v = <<>>
    /\ point = InfPoint /\ sig = NoSig /\ sig2 = NoSig /\ verdict = "none"
    /\ wire = NoBytes /\ decoded = NoSig

\* Point::new
PointNew ==
    /\ pc = "new_start"
    /\ pc' = "point_new"
    /\ outcome' = Point_new(args[1], args[2], args[3], args[4])
    /\ UNCHANGED <<secret, z, hmac_v, point, sig, sig2, verdict, wire, decoded, args>>

\* S256Point::new, for coordinates of the secp256k1 field
S256PointNew ==
    /\ pc = "new_start"
    /\ args[3] = FieldElement_new(ec_a, prime) /\ args[4] = FieldElement_new(ec_b, prime)
    /\ pc' = "s256_point_new"
    /\ outcome' = S256Point_new(S256Field_new(args[1].num), S256Field_new(args[2].num))
    /\ UNCHANGED <<secret, z, hmac_v, point, sig, sig2, verdict, wire, decoded, args>>

NextPointNew == PointNew \/ S256PointNew

SpecPointNew == InitPointNew /\ [][NextPointNew]_vars

----------------------------------------------------------------------------
(* The group specification: addition and scalar multiplication of points *)
(* accepted by Point::new, and of the generator                          *)

CurveA(c) == FieldElement_new(c[1], c[3])
CurveB(c) == FieldElement_new(c[2], c[3])

\* the points Point::new accepts among the coordinates of the model, and
\* Point::inf
AcceptedPoints ==
    [c \in Curves |->
        {pt \in {Point_new(FieldElement_new(x, c[3]), FieldElement_new(y, c[3]),
                           CurveA(c), CurveB(c)) :
                     x \in Coordinates(c[3]), y \in Coordinates(c[3])} :
             pt.tag = "NormalPoint"}
        \cup {Point_inf(CurveA(c), CurveB(c))}]

Secp256K1 == <<ec_a, ec_b, prime>>

\* the generator as a generic Point
G == Point_expect(Point_new(FieldElement_new(gen_point.x, prime),
                            FieldElement_new(gen_point.y, prime),
                            CurveA(Secp256K1), CurveB(Secp256K1)))

\* the S256Point of a Point on the secp256k1 curve
ToS256Point(pt) ==
    IF pt.tag = "InfPoint" THEN InfPoint
    ELSE Expect(S256Point_new(S256Field_new(pt.x.num), S256Field_new(pt.y.num)))

InitGroup ==
    /\ pc = "group_start"
    /\ \/ \E c \in Curves : \E p, q \in AcceptedPoints[c] :
              args = [p |-> p, q |-> q, k |-> 1]
       \/ \E c \in Curves : \E p \in AcceptedPoints[c] : \E k \in 0 .. MaxScalar :
              args = [p |-> p, q |-> p, k |-> k]
       \/ \E k \in 0 .. MaxGroupScalar :
              args = [p |-> G, q |-> G, k |-> k]
    /\ outcome = <<>>
    /\ secret = 0 /\ z = 0 /\ hmac_v = <<>>
    /\ point = InfPoint /\ sig = NoSig /\ sig2 = NoSig /\ verdict = "none"
    /\ wire = NoBytes /\ decoded = NoSig

\* Add<Point> for Point
PointAdd ==
    /\ pc = "group_start"
    /\ pc' = "point_add"
    /\ outcome' = Point_add(args.p, args.q)
    /\ UNCHANGED <<secret, z, hmac_v, point, sig, sig2, verdict, wire, decoded, args>>

\* Mul<T> for Point
PointMul ==
    /\ pc = "group_start"
    /\ pc' = "point_mul"
    /\ outcome' = Point_mul(args.p, args.k)
    /\ UNCHANGED <<secret, z, hmac_v, point, sig, sig2, verdict, wire, decoded, args>>

\* Add<S256Point> for S256Point
S256PointAdd ==
    /\ pc = "group_start"
    /\ args.p.a = CurveA(Secp256K1) /\ args.p.b = CurveB(Secp256K1)
    /\ pc' = "s256_point_add"
    /\ outcome' = S256Point_add(ToS256Point(args.p), ToS256Point(args.q))
    /\ UNCHANGED <<secret, z, hmac_v, point, sig, sig2, verdict, wire, decoded, args>>

\* Mul<T> for S256Point
S256PointMul ==
    /\ pc = "group_start"
    /\ args.p.a = CurveA(Secp256K1) /\ args.p.b = CurveB(Secp256K1)
    /\ pc' = "s256_point_mul"
    /\ outcome' = S256Point_mul(ToS256Point(args.p), args.k)
    /\ UNCHANGED <<secret, z, hmac_v, point, sig, sig2, verdict, wire, decoded, args>>

NextGroup == PointAdd \/ PointMul \/ S256PointAdd \/ S256PointMul

SpecGroup == InitGroup /\ [][NextGroup]_vars

----------------------------------------------------------------------------
(* Base58: encode_base58 of secp256k1/utils.rs, secp256k1/ec/utils.rs and
   wallet/secp256k1/utils.rs.  A String is a sequence of one-character
   strings. *)

\* longest payload
MaxB58Len == 3

\* largest payload byte
MaxB58Byte == 2

base58_alphabet ==
    <<"1", "2", "3", "4", "5", "6", "7", "8", "9",
      "A", "B", "C", "D", "E", "F", "G", "H", "J", "K", "L", "M", "N", "P",
      "Q", "R", "S", "T", "U", "V", "W", "X", "Y", "Z",
      "a", "b", "c", "d", "e", "f", "g", "h", "i", "j", "k", "m", "n", "o",
      "p", "q", "r", "s", "t", "u", "v", "w", "x", "y", "z">>

\* BigUint::from_bytes_be
RECURSIVE from_bytes_be(_)
from_bytes_be(bytes) ==
    IF bytes = <<>> THEN 0
    ELSE from_bytes_be(SubSeq(bytes, 1, Len(bytes) - 1)) * 256 + bytes[Len(bytes)]

\* `for i in bytes.iter() { if *i == 0 { prefix += "1" } else { break } }`
RECURSIVE prefix_until_break(_)
prefix_until_break(bytes) ==
    IF bytes = <<>> THEN <<>>
    ELSE IF bytes[1] = 0 THEN <<"1">> \o prefix_until_break(Tail(bytes))
    ELSE <<>>

\* `for i in bytes.iter() { if *i == 0 { prefix += "1" } }`
RECURSIVE prefix_every_zero(_)
prefix_every_zero(bytes) ==
    IF bytes = <<>> THEN <<>>
    ELSE (IF bytes[1] = 0 THEN <<"1">> ELSE <<>>) \o prefix_every_zero(Tail(bytes))

\* `while v > 0 { (v, r) = div_rem(v, 58); ret.push(alphabet[r]) }`
RECURSIVE base58_digits(_)
base58_digits(v) ==
    IF v > 0 THEN <<base58_alphabet[(v % 58) + 1]>> \o base58_digits(v \div 58)
    ELSE <<>>

\* `.chars().rev().collect()`
Reverse(s) == [i \in 1..Len(s) |-> s[Len(s) + 1 - i]]

\* secp256k1/utils.rs and wallet/secp256k1/utils.rs
encode_base58(bytes) ==
    Reverse(base58_digits(from_bytes_be(bytes)) \o prefix_until_break(bytes))

\* secp256k1/ec/utils.rs
ec_encode_base58(bytes) ==
    Reverse(base58_digits(from_bytes_be(bytes)) \o prefix_every_zero(bytes))

RECURSIVE ByteStrings(_, _)
\* the byte strings of length at most len over the given bytes
ByteStrings(len, bytes) ==
    IF len = 0 THEN {<<>>}
    ELSE LET shorter == ByteStrings(len - 1, bytes)
         IN shorter \cup {<<b>> \o s : b \in bytes, s \in {t \in shorter : Len(t) = len - 1}}

InitBase58 ==
    /\ pc = "base58_start"
    /\ secret = 0 /\ z = 0 /\ hmac_v = <<>>
    /\ point = InfPoint /\ sig = NoSig /\ sig2 = NoSig
    /\ verdict = "none" /\ wire = NoBytes /\ decoded = NoSig
    /\ args \in ByteStrings(MaxB58Len, 0..MaxB58Byte)
    /\ outcome = <<>>

EncodeBase58 ==
    /\ pc = "base58_start"
    /\ pc' = "encode_base58"
    /\ outcome' = encode_base58(args)
    /\ UNCHANGED <<secret, z, hmac_v, point, sig, sig2, verdict, wire, decoded, args>>

EcEncodeBase58 ==
    /\ pc = "base58_start"
    /\ pc' = "ec_encode_base58"
    /\ outcome' = ec_encode_base58(args)
    /\ UNCHANGED <<secret, z, hmac_v, point, sig, sig2, verdict, wire, decoded, args>>

WalletEncodeBase58 ==
    /\ pc = "base58_start"
    /\ pc' = "wallet_encode_base58"
    /\ outcome' = encode_base58(args)
    /\ UNCHANGED <<secret, z, hmac_v, point, sig, sig2, verdict, wire, decoded, args>>

NextBase58 == EncodeBase58 \/ EcEncodeBase58 \/ WalletEncodeBase58

SpecBase58 == InitBase58 /\ [][NextBase58]_vars

----------------------------------------------------------------------------
(* transaction/varint.rs and the nom parsers it calls.  A parser result is
   [tag |-> "Ok", rest, value], NomErr (an Err of IResult) or NomPanic (an
   index out of range). *)

NomOk(rest, value) == [tag |-> "Ok", rest |-> rest, value |-> value]
NomErr == [tag |-> "Err"]
NomPanic == [tag |-> "Panic"]

\* `&input[k..]`
SliceFrom(input, k) == SubSeq(input, k + 1, Len(input))

RECURSIVE from_little_endian(_)
from_little_endian(bytes) ==
    IF bytes = <<>> THEN 0 ELSE bytes[1] + 256 * from_little_endian(Tail(bytes))

\* put_u16_le, put_u32_le, put_u64_le: the width lowest bytes of int
RECURSIVE to_little_endian(_, _)
to_little_endian(int, width) ==
    IF width = 0 THEN <<>>
    ELSE <<int % 256>> \o to_little_endian(int \div 256, width - 1)

\* nom::number::complete::le_u8, le_u16, le_u32, le_u64 by their width
le_uint(input, width) ==
    IF Len(input) < width THEN NomErr
    ELSE NomOk(SliceFrom(input, width), from_little_endian(SubSeq(input, 1, width)))

\* nom::bytes::streaming::take
take(count, input) ==
    IF Len(input) < count THEN NomErr
    ELSE NomOk(SliceFrom(input, count), SubSeq(input, 1, count))

\* Varint::encode of the integer int (int < 2^32 written without 2^32)
Varint_encode(int) ==
    IF int < 253 THEN <<int>>
    ELSE IF int < 65536 THEN <<253>> \o to_little_endian(int, 2)
    ELSE IF int \div 65536 < 65536 THEN <<254>> \o to_little_endian(int, 4)
    ELSE <<255>> \o to_little_endian(int, 8)

\* Varint::parse; the value is the u64 that Into<u64> gives
Varint_parse(input) ==
    IF Len(input) < 1 THEN NomPanic                  \* input[0]
    ELSE LET i == input[1]
         IN  IF i = 253 THEN le_uint(SliceFrom(input, 1), 2)
             ELSE IF i = 254 THEN le_uint(SliceFrom(input, 1), 4)
             ELSE IF i = 255 THEN le_uint(SliceFrom(input, 1), 8)
             ELSE le_uint(input, 1)

----------------------------------------------------------------------------
(* script.rs *)

DataElement(data) == [tag |-> "DataElement", data |-> data]

\* OpCode::new
OpCode_new(code) ==
    [tag |-> "OpCode", num |-> code,
     kind |-> IF code = 118 THEN "OpDup"
              ELSE IF code = 170 THEN "OpHash256"
              ELSE IF code = 169 THEN "OpHash160"
              ELSE IF code = 172 THEN "OpCheckSig"
              ELSE "Unknown"]

RECURSIVE nom_parse_loop(_, _, _, _)
\* the while loop of nom_parse
nom_parse_loop(outer_input, count, length, cmds) ==
    IF ~(count < length) THEN [tag |-> "Ok", count |-> count, cmds |-> cmds]
    ELSE LET first == le_uint(outer_input, 1)
         IN  IF first.tag # "Ok" THEN NomErr
             ELSE LET input == first.rest
                      current == first.value
                  IN  IF current >= 1 /\ current <= 75
                      THEN LET bytes == take(current, input)
                           IN  IF bytes.tag # "Ok" THEN NomErr
                               ELSE nom_parse_loop(bytes.rest, count + 1 + current, length,
                                        Append(cmds, DataElement(bytes.value)))
                      ELSE IF current = 76
                      THEN LET data_len == le_uint(input, 1)
                           IN  IF data_len.tag # "Ok" THEN NomErr
                               ELSE LET bytes == take(data_len.value, data_len.rest)
                                    IN  IF bytes.tag # "Ok" THEN NomErr
                                        ELSE nom_parse_loop(bytes.rest,
                                                 count + 1 + 1 + data_len.value, length,
                                                 Append(cmds, DataElement(bytes.value)))
                      ELSE IF current = 77
                      THEN LET data_len == le_uint(input, 2)
                           IN  IF data_len.tag # "Ok" THEN NomErr
                               ELSE LET bytes == take(data_len.value, data_len.rest)
                                    IN  IF bytes.tag # "Ok" THEN NomErr
                                        ELSE nom_parse_loop(bytes.rest,
                                                 count + 1 + 1 + data_len.value, length,
                                                 Append(cmds, DataElement(bytes.value)))
                      ELSE nom_parse_loop(input, count + 1, length,
                               Append(cmds, OpCode_new(current)))

\* Script::nom_parse: the `input` of line 218 is the one bound at line 180,
\* the input after the length varint
nom_parse(input) ==
    LET varint == Varint_parse(input)
    IN  IF varint.tag # "Ok" THEN varint
        ELSE LET length == varint.value
                 loop == nom_parse_loop(varint.rest, 0, length, <<>>)
             IN  IF loop.tag # "Ok" THEN loop
                 ELSE NomOk(varint.rest,
                            [consumed_exactly_len |-> loop.count = length,
                             cmds |-> loop.cmds])

ScriptOk(rest, cmds) == [tag |-> "Ok", rest |-> rest, cmds |-> cmds]
ScriptErr(error) == [tag |-> "Err", error |-> error]
ScriptPanic == [tag |-> "Panic"]

\* Script::parse
Script_parse(input) ==
    LET parsed == nom_parse(input)
    IN  IF parsed.tag = "Panic" THEN ScriptPanic
        ELSE IF parsed.tag = "Err" THEN ScriptErr("NomParseError")
        ELSE IF ~parsed.value.consumed_exactly_len THEN ScriptErr("ParseLengthError")
        ELSE ScriptOk(parsed.rest, parsed.value.cmds)

SerializeOk(bytes) == [tag |-> "Ok", bytes |-> bytes]

RECURSIVE serialize_cmds(_)
\* the second loop of Script::serialize: the buffer, or the error
serialize_cmds(cmds) ==
    IF cmds = <<>> THEN SerializeOk(<<>>)
    ELSE LET i == cmds[1]
             len == Len(i.data)
             head == IF i.tag = "OpCode" THEN SerializeOk(<<i.num>>)
                     ELSE IF len < 75
                          THEN SerializeOk(Varint_encode(len) \o i.data)
                     ELSE IF len > 75 /\ len < 256
                          THEN SerializeOk(<<76>> \o Varint_encode(len) \o i.data)
                     ELSE IF len >= 256 /\ len <= 520
                          THEN SerializeOk(<<77>> \o Varint_encode(len) \o i.data)
                     ELSE ScriptErr("SerializeTooLongError")
         IN  IF head.tag # "Ok" THEN head
             ELSE LET tail == serialize_cmds(Tail(cmds))
                  IN  IF tail.tag # "Ok" THEN tail
                      ELSE SerializeOk(head.bytes \o tail.bytes)

\* Script::serialize
Script_serialize(cmds) ==
    LET raw_ret == serialize_cmds(cmds)
    IN  IF raw_ret.tag # "Ok" THEN raw_ret
        ELSE SerializeOk(Varint_encode(Len(raw_ret.bytes)) \o raw_ret.bytes)

----------------------------------------------------------------------------
(* script.rs: the operations and Script::evaluate.  The result of an
   operation is [tag |-> "true" | "false" | "panic", stack]. *)

OpResult(tag, stack) == [tag |-> tag, stack |-> stack]

op_dup(stack) ==
    IF Len(stack) < 1 THEN OpResult("false", stack)
    ELSE LET last == stack[Len(stack)]
         IN  IF last.tag # "DataElement" THEN OpResult("panic", stack)
             ELSE OpResult("true", Append(stack, DataElement(last.data)))

\* the digest is a function of the data that is not computed here: 32
\* bytes that name the data
op_hash256(stack) ==
    IF Len(stack) < 1 THEN OpResult("false", stack)
    ELSE LET last == stack[Len(stack)]
         IN  IF last.tag # "DataElement" THEN OpResult("panic", stack)
             ELSE LET hash == [i \in 1 .. 32 |-> [hash256 |-> last.data, byte |-> i]]
                  IN  OpResult("true", Append(stack, DataElement(hash)))

\* the digest is a function of the data that is not computed here: 20
\* bytes that name the data
op_hash160(stack) ==
    IF Len(stack) < 1 THEN OpResult("false", stack)
    ELSE LET last == stack[Len(stack)]
         IN  IF last.tag # "DataElement" THEN OpResult("panic", stack)
             ELSE LET hash == [i \in 1 .. 20 |-> [hash160 |-> last.data, byte |-> i]]
                  IN  OpResult("true", Append(stack, DataElement(hash)))

op_unknown(stack) == OpResult("false", stack)

\* op_check_sig of script.rs: the verdict of verify is the result, nothing
\* is pushed
op_check_sig(stack, hash) ==
    IF Len(stack) < 2 THEN OpResult("false", stack)
    ELSE LET sec_bytes == stack[Len(stack)]
             sig_bytes == stack[Len(stack) - 1]
             rest == SubSeq(stack, 1, Len(stack) - 2)
         IN  IF sec_bytes.tag # "DataElement" \/ sig_bytes.tag # "DataElement"
             THEN OpResult("panic", rest)                       \* Deref
             ELSE LET pt == parse_sec(sec_bytes.data)
                      sg == parse_der(sig_bytes.data)
                  IN  IF pt.tag = "Panic" \/ sg.tag = "panic" THEN OpResult("panic", rest)
                      ELSE OpResult(verify(pt, hash, sg), rest)

\* encode_num of script/op_function.rs, for -127 .. 127
encode_num(num) ==
    IF num = 0 THEN <<>>
    ELSE IF num < 0 THEN <<(0 - num) + 128>>
    ELSE <<num>>

\* op_check_sig of script/op_function.rs: the last byte of the signature
\* element is left out of parse_der, and the verdict is pushed
fn_op_check_sig(stack, hash) ==
    IF Len(stack) < 2 THEN OpResult("false", stack)
    ELSE LET sec_bytes == stack[Len(stack)]
             sig_bytes == stack[Len(stack) - 1]
             rest == SubSeq(stack, 1, Len(stack) - 2)
         IN  IF sec_bytes.tag # "DataElement" \/ sig_bytes.tag # "DataElement"
             THEN OpResult("panic", rest)                       \* Deref
             ELSE IF Len(sig_bytes.data) < 1 THEN OpResult("panic", rest) \* sig.len() - 1
             ELSE LET pt == parse_sec(sec_bytes.data)
                      sg == parse_der(SubSeq(sig_bytes.data, 1, Len(sig_bytes.data) - 1))
                  IN  IF pt.tag = "Panic" \/ sg.tag = "panic" THEN OpResult("panic", rest)
                      ELSE LET verdict_ == verify(pt, hash, sg)
                           IN  IF verdict_ = "panic" THEN OpResult("panic", rest)
                               ELSE IF verdict_ = "true"
                               THEN OpResult("true", Append(rest, DataElement(encode_num(1))))
                               ELSE OpResult("true", Append(rest, DataElement(encode_num(0))))

\* Option<Hash256>
Some(hash) == [some |-> TRUE, hash |-> hash]
None == [some |-> FALSE, hash |-> 0]

\* OpCode::operation: the type of the operation, and the operation applied
operation_type(opcode) == IF opcode.kind = "OpCheckSig" THEN "StackSig" ELSE "Stack"

operation_stack(opcode, stack) ==
    IF opcode.kind = "OpDup" THEN op_dup(stack)
    ELSE IF opcode.kind = "OpHash256" THEN op_hash256(stack)
    ELSE IF opcode.kind = "OpHash160" THEN op_hash160(stack)
    ELSE op_unknown(stack)

EvalOk(value) == [tag |-> "Ok", value |-> value]
OpCodeEvaluateError(num) == [tag |-> "Err", error |-> "OpCodeEvaluateError", num |-> num]

\* lines 314-329 of evaluate
evaluate_end(stack) ==
    IF stack = <<>> THEN EvalOk(FALSE)
    ELSE IF stack[Len(stack)].tag = "DataElement" /\ stack[Len(stack)].data = <<>>
         THEN EvalOk(FALSE)
    ELSE EvalOk(TRUE)

RECURSIVE evaluate_loop(_, _, _)
\* the while loop of evaluate, then its end
evaluate_loop(cmds, stack, hash) ==
    IF ~(Len(cmds) > 0) THEN evaluate_end(stack)
    ELSE LET cmd == cmds[1]
             rest == Tail(cmds)
         IN  IF cmd.tag = "DataElement" THEN evaluate_loop(rest, Append(stack, cmd), hash)
             ELSE LET opcode_num == cmd.num
                      type == operation_type(cmd)
                  IN  IF opcode_num >= 99 /\ opcode_num <= 100
                      THEN ScriptPanic              \* no operation is StackStack
                      ELSE IF opcode_num >= 107 /\ opcode_num <= 108
                      THEN ScriptPanic              \* no operation is StackStack
                      ELSE IF opcode_num >= 172 /\ opcode_num <= 175
                      THEN IF type # "StackSig" THEN ScriptPanic     \* unreachable!()
                           ELSE IF ~hash.some THEN ScriptPanic       \* hash.expect
                           ELSE LET done == op_check_sig(stack, hash.hash)
                                IN  IF done.tag = "panic" THEN ScriptPanic
                                    ELSE IF done.tag = "false"
                                    THEN OpCodeEvaluateError(opcode_num)
                                    ELSE evaluate_loop(rest, done.stack, hash)
                      ELSE IF type # "Stack" THEN ScriptPanic        \* unreachable!()
                           ELSE LET done == operation_stack(cmd, stack)
                                IN  IF done.tag = "panic" THEN ScriptPanic
                                    ELSE IF done.tag = "false"
                                    THEN OpCodeEvaluateError(opcode_num)
                                    ELSE evaluate_loop(rest, done.stack, hash)

\* Script::evaluate
Script_evaluate(cmds, hash) == evaluate_loop(cmds, <<>>, hash)
----------------------------------------------------------------------------
(* The script specification: Script::parse of received bytes, then
   serialize of the parsed script and parse of the remainder;
   Script::serialize of a built script, then parse of its bytes;
   Script::evaluate of a built script. *)

\* longest received byte string drawn from ScriptBytes
MaxScriptLen == 4

\* most commands of a built script
MaxCmds == 2

\* longest data element of a built script
MaxElementLen == 521

\* largest hash and nonce of a pay-to-pubkey script
MaxScriptHash == 2

\* opcodes, push opcodes and the two-byte varint prefix
ScriptBytes == {0, 1, 2, 3, 76, 77, 172, 253}

\* a data element of the given length
Fill(len) == [i \in 1 .. len |-> 7]

\* the wire form of one push of len bytes, behind the script length
PushWire(len) ==
    IF len <= 75 THEN Varint_encode(1 + len) \o <<len>> \o Fill(len)
    ELSE IF len < 256 THEN Varint_encode(2 + len) \o <<76, len>> \o Fill(len)
    ELSE Varint_encode(3 + len) \o <<77>> \o to_little_endian(len, 2) \o Fill(len)

ScriptInputs ==
    ByteStrings(MaxScriptLen, ScriptBytes)
        \cup {PushWire(len) : len \in {74, 75, 76, 252, 253, 256}}
        \cup {PushWire(len) \o <<118>> : len \in {74, 75, 76, 252, 253, 256}}

ElementLens == {1, 2, 74, 75, 76, 252, 253, 255, 256, MaxElementLen - 1, MaxElementLen}

RECURSIVE CmdSeqs(_, _)
\* the command sequences of at most len commands
CmdSeqs(len, cmds) ==
    IF len = 0 THEN {<<>>}
    ELSE LET shorter == CmdSeqs(len - 1, cmds)
         IN shorter \cup {Append(s, c) : c \in cmds, s \in {t \in shorter : Len(t) = len - 1}}

BuiltScripts ==
    CmdSeqs(MaxCmds, {DataElement(Fill(len)) : len \in ElementLens}
                         \cup {OpCode_new(118), OpCode_new(172)})

EvalCmds ==
    {DataElement(<<>>), DataElement(<<1>>)}
        \cup {OpCode_new(code) : code \in {0, 99, 100, 106, 107, 108, 118, 169, 170,
                                           172, 173, 174, 175}}

\* no digest reaches OP_CHECKSIG: the bytes of a digest are not modelled
NoDigestChecked(cmds) ==
    \A i \in 1 .. Len(cmds), j \in 1 .. Len(cmds) :
        (i < j /\ cmds[i].tag = "OpCode" /\ cmds[j].tag = "OpCode")
            => ~(cmds[i].num \in {169, 170} /\ cmds[j].num = 172)

\* script_sig + script_pubkey of pay-to-pubkey: the signature of key e on
\* hash signed with nonce k, followed by hashtype, then the key, then
\* OP_CHECKSIG
P2pk(e, signed, k, hashtype) ==
    LET key == S256Point_mul(gen_point, e)
        sg == sign(e, signed, k)
    IN  [cmds |-> <<DataElement(der(sg).bytes \o hashtype),
                    DataElement(sec(key).bytes), OpCode_new(172)>>,
         key |-> key, sig |-> sg]

InitScript ==
    /\ secret = 0 /\ z = 0 /\ hmac_v = <<>>
    /\ point = InfPoint /\ sig = NoSig /\ sig2 = NoSig
    /\ verdict = "none" /\ wire = NoBytes /\ decoded = NoSig
    /\ outcome = <<>>
    /\ \/ /\ pc = "parse_start"
          /\ \E input \in ScriptInputs : args = [input |-> input]
       \/ /\ pc = "serialize_start"
          /\ \E cmds \in BuiltScripts : args = [cmds |-> cmds]
       \/ /\ pc = "evaluate_start"
          /\ \E cmds \in {c \in CmdSeqs(MaxCmds, EvalCmds) : NoDigestChecked(c)},
                hash \in {None, Some(1)} :
                args = [cmds |-> cmds, hash |-> hash]
       \/ /\ pc = "evaluate_start"
          /\ \E e \in 1 .. MaxSecret, signed \in 1 .. MaxScriptHash,
                k \in 1 .. MaxScriptHash, hash \in 1 .. MaxScriptHash,
                hashtype \in {<<>>, <<1>>} :
                LET p2pk == P2pk(e, signed, k, hashtype)
                IN  /\ p2pk.sig.tag = "ok"
                    /\ der(p2pk.sig).tag = "ok"
                    /\ args = [cmds |-> p2pk.cmds, hash |-> Some(hash),
                               key |-> p2pk.key, sig |-> p2pk.sig]

\* Script::parse of the received bytes
ScriptParse ==
    /\ pc = "parse_start"
    /\ pc' = "parsed"
    /\ outcome' = [parse |-> Script_parse(args.input)]
    /\ UNCHANGED <<secret, z, hmac_v, point, sig, sig2, verdict, wire, decoded, args>>

\* Script::serialize of the script that parse returned
ScriptSerializeParsed ==
    /\ pc = "parsed"
    /\ outcome.parse.tag = "Ok"
    /\ pc' = "parsed_serialized"
    /\ outcome' = [parse |-> outcome.parse,
                   serialize |-> Script_serialize(outcome.parse.cmds)]
    /\ UNCHANGED <<secret, z, hmac_v, point, sig, sig2, verdict, wire, decoded, args>>

\* Script::parse of the remainder that parse returned
ScriptParseRemainder ==
    /\ pc = "parsed"
    /\ outcome.parse.tag = "Ok"
    /\ pc' = "parsed_remainder"
    /\ outcome' = [parse |-> outcome.parse,
                   remainder |-> Script_parse(outcome.parse.rest)]
    /\ UNCHANGED <<secret, z, hmac_v, point, sig, sig2, verdict, wire, decoded, args>>

\* Script::serialize of a built script
ScriptSerialize ==
    /\ pc = "serialize_start"
    /\ pc' = "serialized"
    /\ outcome' = [serialize |-> Script_serialize(args.cmds)]
    /\ UNCHANGED <<secret, z, hmac_v, point, sig, sig2, verdict, wire, decoded, args>>

\* Script::parse of the bytes that serialize returned
ScriptParseSerialized ==
    /\ pc = "serialized"
    /\ outcome.serialize.tag = "Ok"
    /\ pc' = "serialized_parsed"
    /\ outcome' = [serialize |-> outcome.serialize,
                   parse |-> Script_parse(outcome.serialize.bytes)]
    /\ UNCHANGED <<secret, z, hmac_v, point, sig, sig2, verdict, wire, decoded, args>>

\* Script::evaluate
ScriptEvaluate ==
    /\ pc = "evaluate_start"
    /\ pc' = "evaluated"
    /\ outcome' = Script_evaluate(args.cmds, args.hash)
    /\ UNCHANGED <<secret, z, hmac_v, point, sig, sig2, verdict, wire, decoded, args>>

\* op_check_sig of script/op_function.rs on the stack that the data
\* elements before a closing OP_CHECKSIG make
FnOpCheckSig ==
    /\ pc = "evaluate_start"
    /\ args.hash.some
    /\ Len(args.cmds) >= 1
    /\ args.cmds[Len(args.cmds)] = OpCode_new(172)
    /\ \A i \in 1 .. Len(args.cmds) - 1 : args.cmds[i].tag = "DataElement"
    /\ pc' = "fn_op_check_sig"
    /\ outcome' = fn_op_check_sig(SubSeq(args.cmds, 1, Len(args.cmds) - 1), args.hash.hash)
    /\ UNCHANGED <<secret, z, hmac_v, point, sig, sig2, verdict, wire, decoded, args>>

NextScript ==
    \/ ScriptParse
    \/ ScriptSerializeParsed
    \/ ScriptParseRemainder
    \/ ScriptSerialize
    \/ ScriptParseSerialized
    \/ ScriptEvaluate
    \/ FnOpCheckSig

SpecScript == InitScript /\ [][NextScript]_vars

----------------------------------------------------------------------------
(* transaction.rs, transaction/tx_input.rs, transaction/tx_output.rs,
   transaction/tx_version.rs, transaction/locktime.rs *)

\* TxHash::parse: 32 bytes, reversed
TxHash_parse(input) ==
    LET tx_hash == take(32, input)
    IN  IF tx_hash.tag # "Ok" THEN tx_hash
        ELSE NomOk(tx_hash.rest, Reverse(tx_hash.value))

\* ScriptSig::parse and ScriptPubKey::parse: a varint, then that many bytes
ScriptSig_parse(input) ==
    LET script_sig_len == Varint_parse(input)
    IN  IF script_sig_len.tag # "Ok" THEN script_sig_len
        ELSE take(script_sig_len.value, script_sig_len.rest)

ScriptPubKey_parse(input) ==
    LET script_pub_key_len == Varint_parse(input)
    IN  IF script_pub_key_len.tag # "Ok" THEN script_pub_key_len
        ELSE take(script_pub_key_len.value, script_pub_key_len.rest)

\* ScriptSig::serialize and ScriptPubKey::serialize
ScriptSig_serialize(content) == Varint_encode(Len(content)) \o content

ScriptPubKey_serialize(content) == Varint_encode(Len(content)) \o content

\* TxInput::parse; PreTxIndex::parse and TxInputSequence::parse are le_u32
TxInput_parse(input) ==
    LET pre_tx_id == TxHash_parse(input)
    IN  IF pre_tx_id.tag # "Ok" THEN pre_tx_id
        ELSE LET pre_tx_index == le_uint(pre_tx_id.rest, 4)
             IN  IF pre_tx_index.tag # "Ok" THEN pre_tx_index
                 ELSE LET script_sig == ScriptSig_parse(pre_tx_index.rest)
                      IN  IF script_sig.tag # "Ok" THEN script_sig
                          ELSE LET sequence == le_uint(script_sig.rest, 4)
                               IN  IF sequence.tag # "Ok" THEN sequence
                                   ELSE NomOk(sequence.rest,
                                              [pre_tx_id |-> pre_tx_id.value,
                                               pre_tx_index |-> pre_tx_index.value,
                                               script_sig |-> script_sig.value,
                                               sequence |-> sequence.value])

\* TxInput::serialize
TxInput_serialize(self) ==
    Reverse(self.pre_tx_id) \o to_little_endian(self.pre_tx_index, 4)
        \o ScriptSig_serialize(self.script_sig) \o to_little_endian(self.sequence, 4)

\* TxOutput::parse
TxOutput_parse(input) ==
    LET amount == le_uint(input, 8)
    IN  IF amount.tag # "Ok" THEN amount
        ELSE LET script_pub_key == ScriptPubKey_parse(amount.rest)
             IN  IF script_pub_key.tag # "Ok" THEN script_pub_key
                 ELSE NomOk(script_pub_key.rest,
                            [amount |-> amount.value,
                             script_pub_key |-> script_pub_key.value])

\* TxOutput::serialize
TxOutput_serialize(self) ==
    to_little_endian(self.amount, 8) \o ScriptPubKey_serialize(self.script_pub_key)

RECURSIVE count_TxInput(_, _, _)
\* nom::multi::count(TxInput::parse, num)
count_TxInput(input, num, res) ==
    IF num = 0 THEN NomOk(input, res)
    ELSE LET o == TxInput_parse(input)
         IN  IF o.tag # "Ok" THEN o
             ELSE count_TxInput(o.rest, num - 1, Append(res, o.value))

RECURSIVE count_TxOutput(_, _, _)
\* nom::multi::count(TxOutput::parse, num)
count_TxOutput(input, num, res) ==
    IF num = 0 THEN NomOk(input, res)
    ELSE LET o == TxOutput_parse(input)
         IN  IF o.tag # "Ok" THEN o
             ELSE count_TxOutput(o.rest, num - 1, Append(res, o.value))

\* Transaction::parse; TxVersion::parse and TxLocktime::parse are le_u32
Transaction_parse(input) ==
    LET tx_version == le_uint(input, 4)
    IN  IF tx_version.tag # "Ok" THEN tx_version
    ELSE LET inputs_num == Varint_parse(tx_version.rest)
    IN  IF inputs_num.tag # "Ok" THEN inputs_num
    ELSE LET tx_inputs == count_TxInput(inputs_num.rest, inputs_num.value, <<>>)
    IN  IF tx_inputs.tag # "Ok" THEN tx_inputs
    ELSE LET output_num == Varint_parse(tx_inputs.rest)
    IN  IF output_num.tag # "Ok" THEN output_num
    ELSE LET tx_outputs == count_TxOutput(output_num.rest, output_num.value, <<>>)
    IN  IF tx_outputs.tag # "Ok" THEN tx_outputs
    ELSE LET locktime == le_uint(tx_outputs.rest, 4)
    IN  IF locktime.tag # "Ok" THEN locktime
    ELSE NomOk(locktime.rest,
               [version |-> tx_version.value, inputs |-> tx_inputs.value,
                outputs |-> tx_outputs.value, locktime |-> locktime.value,
                testnet |-> FALSE])

RECURSIVE serialize_inputs(_)
serialize_inputs(inputs) ==
    IF inputs = <<>> THEN <<>>
    ELSE TxInput_serialize(inputs[1]) \o serialize_inputs(Tail(inputs))

RECURSIVE serialize_outputs(_)
serialize_outputs(outputs) ==
    IF outputs = <<>> THEN <<>>
    ELSE TxOutput_serialize(outputs[1]) \o serialize_outputs(Tail(outputs))

\* Transaction::serialize
Transaction_serialize(self) ==
    to_little_endian(self.version, 4)
        \o Varint_encode(Len(self.inputs)) \o serialize_inputs(self.inputs)
        \o Varint_encode(Len(self.outputs)) \o serialize_outputs(self.outputs)
        \o to_little_endian(self.locktime, 4)

----------------------------------------------------------------------------
(* The transaction specification: Transaction::parse of received bytes,
   then serialize of the parsed transaction.  The received bytes are a
   prefix of a well-formed transaction, or the whole of it with a byte
   behind it. *)

\* most inputs and most outputs of a transaction
MaxTxItems == 1

\* largest version, index, amount and locktime
MaxTxWord == 1

\* a previous transaction id in wire order
WireHash == [i \in 1 .. 32 |-> i]

\* a count on the wire: the shortest varint, or 0xfd and two bytes
CountWires(num) == {Varint_encode(num), <<253>> \o to_little_endian(num, 2)}

\* the transactions on the wire, from their parts
TxItemSeqs(items) == UNION {[1 .. len -> items] : len \in 0 .. MaxTxItems}

InputWires ==
    {WireHash \o to_little_endian(index, 4) \o ScriptSig_serialize(script_sig)
         \o to_little_endian(sequence, 4) :
         index \in 0 .. MaxTxWord, script_sig \in {<<>>, <<7>>},
         sequence \in {254 + 256 * 65536 * 127}}

OutputWires ==
    {to_little_endian(amount, 8) \o ScriptPubKey_serialize(script_pub_key) :
         amount \in 0 .. MaxTxWord, script_pub_key \in {<<118, 172>>}}

RECURSIVE Concat(_)
Concat(seqs) == IF seqs = <<>> THEN <<>> ELSE seqs[1] \o Concat(Tail(seqs))

TxWires ==
    UNION {{to_little_endian(version, 4) \o in_count \o Concat(ins)
                \o out_count \o Concat(outs) \o to_little_endian(locktime, 4) :
                version \in 1 .. 1 + MaxTxWord, locktime \in {MaxTxWord},
                in_count \in CountWires(Len(ins)), out_count \in CountWires(Len(outs))} :
               ins \in TxItemSeqs(InputWires), outs \in TxItemSeqs(OutputWires)}

InitTx ==
    /\ pc = "tx_start"
    /\ secret = 0 /\ z = 0 /\ hmac_v = <<>>
    /\ point = InfPoint /\ sig = NoSig /\ sig2 = NoSig
    /\ verdict = "none" /\ wire = NoBytes /\ decoded = NoSig
    /\ outcome = <<>>
    /\ \E full \in TxWires :
           \/ \E len \in 0 .. Len(full) :
                  args = [input |-> SubSeq(full, 1, len), full |-> full]
           \/ args = [input |-> full \o <<1>>, full |-> full]

\* Transaction::parse of the received bytes
TxParse ==
    /\ pc = "tx_start"
    /\ pc' = "tx_parsed"
    /\ outcome' = [parse |-> Transaction_parse(args.input)]
    /\ UNCHANGED <<secret, z, hmac_v, point, sig, sig2, verdict, wire, decoded, args>>

\* Transaction::serialize of the transaction that parse returned
TxSerialize ==
    /\ pc = "tx_parsed"
    /\ outcome.parse.tag = "Ok"
    /\ pc' = "tx_serialized"
    /\ outcome' = [parse |-> outcome.parse,
                   serialize |-> Transaction_serialize(outcome.parse.value)]
    /\ UNCHANGED <<secret, z, hmac_v, point, sig, sig2, verdict, wire, decoded, args>>

NextTx == TxParse \/ TxSerialize

SpecTx == InitTx /\ [][NextTx]_vars

----------------------------------------------------------------------------
(* Properties *)

\* C1: sign/verify round trip: verify accepts, on the public point secret*G
\* and the same z, every signature that sign(secret, z) returns
C1_SignVerifyRoundTrip == pc = "verified" => verdict = "true"

\* C2: verify always returns a boolean; it never fails, also when
\* T = u*G + v*publicPoint is the point at infinity
C2_VerifyReturnsBoolean == pc = "checked" => verdict \in {"true", "false"}

\* C3: verify returns false for every signature whose r or s is outside [1, n-1]
C3_VerifyRejectsOutOfRange ==
    (pc = "checked" /\ (sig.r = 0 \/ sig.r >= n \/ sig.s = 0 \/ sig.s >= n))
        => verdict = "false"

\* C4: for r and s in [1, n-1] and T not at infinity, verify returns true
\* if and only if T.x mod n = r
C4_AcceptIffXModN ==
    (/\ pc = "checked"
     /\ sig.r \in 1 .. n - 1
     /\ sig.s \in 1 .. n - 1
     /\ verify_t(point, z, sig).tag = "NormalPoint")
        => ((verdict = "true") <=> (verify_t(point, z, sig).x % n = sig.r))

\* C5: every signature that sign returns has r = (k*G).x mod n, and r and s
\* in [1, n-1]
C5_SignatureInRange ==
    (pc = "signed" /\ sig.tag = "ok")
        => /\ sig.r = S256Point_mul(gen_point, CandidateLoop(hmac_v, 1)).x % n
           /\ sig.r \in 1 .. n - 1
           /\ sig.s \in 1 .. n - 1

\* C6: low-S: every signature that sign returns has s <= n/2
C6_LowS ==
    (pc \in {"signed", "signed2", "verified"} /\ sig.tag = "ok")
        => sig.s <= n \div 2

\* a signature whose s was above n/2 before the low-s step and was replaced by n - s
C6_Witness ==
    /\ pc = "signed"
    /\ sig.tag = "ok"
    /\ sign_s(secret, z, sig.r, CandidateLoop(hmac_v, 1)) > n \div 2
    /\ sig.s = n - sign_s(secret, z, sig.r, CandidateLoop(hmac_v, 1))

\* C7: determinism: two calls of sign with the same secret and z return the
\* same signature; the random fallback cannot make them differ
C7_Deterministic == pc \in {"signed2", "verified"} => sig2 = sig

\* both calls returned, after HMAC's first candidate was above n and rejected
C7_Witness ==
    /\ pc = "signed2"
    /\ sig.tag = "ok"
    /\ sig2 = sig
    /\ Len(hmac_v) > 1
    /\ hmac_v[1] > n

\* C8: DER round trip: parse_der(der(Signature(r, s))) = Signature(r, s) for
\* all r and s in [1, n-1]
C8_DerRoundTrip ==
    (pc = "der_round_trip" /\ sig.r \in 1 .. n - 1 /\ sig.s \in 1 .. n - 1)
        => decoded = sig

\* one INTEGER of a DER signature at the 0-based offset at: tag 2, a length
\* that stays inside w, at most WordBytes significant bytes
DerIntegerOk(w, at) ==
    /\ Len(w) >= at + 2
    /\ w[at + 1] = 2
    /\ w[at + 2] >= 1
    /\ at + 2 + w[at + 2] <= Len(w)
    /\ \/ w[at + 2] <= WordBytes
       \/ w[at + 2] = WordBytes + 1 /\ w[at + 3] = 0

\* 0x30 len (0x02 rlen r) (0x02 slen s) with every length exact
WellFormedDer(w) ==
    /\ Len(w) >= 2
    /\ w[1] = 48
    /\ w[2] = Len(w) - 2
    /\ DerIntegerOk(w, 2)
    /\ DerIntegerOk(w, 4 + w[4])
    /\ 6 + w[4] + w[6 + w[4]] = Len(w)

\* C9: parse_der reports an error, and does not panic, for every byte string
\* whose tags or lengths are wrong or point past the end of the input
C9_ParseDerRejectsMalformed ==
    (pc = "der_parsed" /\ ~WellFormedDer(wire.bytes)) => decoded.tag = "error"

\* C10: SEC round trip: parse_sec(P.sec()) = P and parse_sec(P.compressed_sec()) = P
\* for every point P of the curve; the compressed case selects the root of
\* x^3 + 7 whose parity the prefix byte names
C10_SecRoundTrip ==
    (pc = "sec_round_trip" /\ point.tag = "NormalPoint")
        => /\ decoded = point
           /\ wire.bytes[1] = 2 => u256_is_even(decoded.y)
           /\ wire.bytes[1] = 3 => ~u256_is_even(decoded.y)

\* a compressed point with odd y came back, the computed root being the even one
C10_Witness ==
    /\ pc = "sec_round_trip"
    /\ point.tag = "NormalPoint"
    /\ wire.bytes[1] = 3
    /\ decoded = point
    /\ u256_is_even(S256Field_sqrt(S256Field_add(S256Field_pow(point.x, 3), ec_b)))

\* the coordinate carried by WordBytes bytes of a SEC string, from offset from
SecCoordinate(sec_bytes, from) == from_big_endian(Slice(sec_bytes, from, from + WordBytes))

\* x^3 + a*x + b in the field of the curve
CurveRhs(x) == ((((x * x) % prime) * x) + (ec_a * x) + ec_b) % prime

\* a SEC string that describes a point of the curve: prefix 4 and two
\* coordinates satisfying the curve equation, or prefix 2 / 3 and an x for
\* which x^3 + 7 is a square
ValidSec(sec_bytes) ==
    \/ /\ Len(sec_bytes) = 1 + 2 * WordBytes
       /\ sec_bytes[1] = 4
       /\ LET x == SecCoordinate(sec_bytes, 1)
              y == SecCoordinate(sec_bytes, 1 + WordBytes)
          IN  (y * y) % prime = CurveRhs(x)
    \/ /\ Len(sec_bytes) = 1 + WordBytes
       /\ sec_bytes[1] \in {2, 3}
       /\ LET x == SecCoordinate(sec_bytes, 1)
          IN  \E y \in 0 .. prime - 1 :
                  (y * y) % prime = CurveRhs(x)

\* C11: parse_sec of an invalid SEC string (wrong length, wrong prefix, or
\* coordinates off the curve) reports an error to the caller: it neither
\* panics nor returns a point
C11_ParseSecRejectsInvalid ==
    (pc = "sec_parsed" /\ ~ValidSec(wire.bytes)) => decoded.tag = "NotInEllipticCurves"

\* y^2 = x^3 + a*x + b in the field of the four elements
SatisfiesCurve(x, y, a, b) ==
    LET p == x.prime
    IN  (y.num * y.num) % p = ((x.num * x.num * x.num) + (a.num * x.num) + b.num) % p

\* C12: Point::new / S256Point::new returns Ok exactly when
\* y^2 = x^3 + a*x + b holds in the field, and the NotInEllipticCurves error
\* for every other pair
C12_NewValidatesCurveEquation ==
    pc \in {"point_new", "s256_point_new"} =>
        IF SatisfiesCurve(args[1], args[2], args[3], args[4])
        THEN outcome.tag = "NormalPoint"
        ELSE outcome.tag = "NotInEllipticCurves"

\* Infinity or an affine point satisfying the equation of its curve
OnCurve(pt) ==
    \/ pt.tag = "InfPoint"
    \/ pt.tag = "NormalPoint" /\ SatisfiesCurve(pt.x, pt.y, pt.a, pt.b)

\* Infinity or an affine point of the secp256k1 curve
OnS256Curve(pt) ==
    \/ pt.tag = "InfPoint"
    \/ pt.tag = "NormalPoint" /\ (pt.y * pt.y) % prime = CurveRhs(pt.x)

\* C13: every sum and every scalar multiple of points accepted by Point::new
\* (or of Infinity) is Infinity or an affine point of the curve; add never
\* ends in the "Point add error" failure
C13_GroupLawStaysOnCurve ==
    /\ pc \in {"point_add", "point_mul"} => OnCurve(outcome)
    /\ pc \in {"s256_point_add", "s256_point_mul"} => OnS256Curve(outcome)

\* Infinity or an affine point whose coordinates are field elements in
\* [0, prime)
ValidPoint(pt) ==
    \/ pt.tag = "InfPoint"
    \/ /\ pt.tag = "NormalPoint"
       /\ pt.x.num < pt.x.prime
       /\ pt.y.num < pt.y.prime

\* C14: the sum of two affine points P and Q of one curve is Infinity when
\* P.x = Q.x and P.y # Q.y and when P = Q with y = 0, and is not Infinity in
\* every other affine case
C14_InverseAddsToInfinity ==
    /\ (/\ pc = "point_add"
        /\ args.p.tag = "NormalPoint" /\ args.q.tag = "NormalPoint"
        /\ ValidPoint(args.p) /\ ValidPoint(args.q))
           => (outcome.tag = "InfPoint"
                  <=> /\ args.p.x = args.q.x
                      /\ (args.p.y # args.q.y \/ args.p.y.num = 0))
    /\ (/\ pc = "s256_point_add"
        /\ args.p.tag = "NormalPoint" /\ args.q.tag = "NormalPoint"
        /\ ValidPoint(args.p) /\ ValidPoint(args.q))
           => (outcome.tag = "InfPoint"
                  <=> /\ args.p.x.num = args.q.x.num
                      /\ (args.p.y.num # args.q.y.num \/ args.p.y.num = 0))

\* a point with y = 0 has been added to itself and the sum is Infinity
C14_Witness ==
    /\ pc = "point_add"
    /\ args.p.tag = "NormalPoint" /\ ValidPoint(args.p)
    /\ args.q = args.p
    /\ args.p.y.num = 0
    /\ outcome.tag = "InfPoint"

RECURSIVE AddTimes(_, _, _)
\* acc + P + ... + P with j summands P, added one after the other
AddTimes(acc, pt, j) ==
    IF j = 0 \/ acc.tag = "Panic" THEN acc
    ELSE AddTimes(Point_add(acc, pt), pt, j - 1)

RECURSIVE RepeatedAdd(_, _)
\* P added to itself k times, folded from Infinity (in runs of MaxScalar
\* additions, which keeps the evaluation shallow)
RepeatedAdd(pt, k) ==
    IF k <= MaxScalar THEN AddTimes(Point_inf(pt.a, pt.b), pt, k)
    ELSE AddTimes(RepeatedAdd(pt, k - MaxScalar), pt, MaxScalar)

RECURSIVE S256AddTimes(_, _, _)
\* acc + P + ... + P with j summands P, for S256Points
S256AddTimes(acc, pt, j) ==
    IF j = 0 \/ acc.tag = "Panic" THEN acc
    ELSE S256AddTimes(S256Point_add(acc, pt), pt, j - 1)

RECURSIVE S256RepeatedAdd(_, _)
\* an S256Point added to itself k times, folded from Infinity
S256RepeatedAdd(pt, k) ==
    IF k <= MaxScalar THEN S256AddTimes(InfPoint, pt, k)
    ELSE S256AddTimes(S256RepeatedAdd(pt, k - MaxScalar), pt, MaxScalar)

C16_GeneratorOrder ==
    /\ (pc = "point_mul" /\ args.p = G)
           => /\ args.k = n => outcome.tag = "InfPoint"
              /\ (0 < args.k /\ args.k < n) => outcome.tag = "NormalPoint"
    /\ (pc = "s256_point_mul" /\ args.p = G)
           => /\ args.k = n => outcome.tag = "InfPoint"
              /\ (0 < args.k /\ args.k < n) => outcome.tag = "NormalPoint"

\* the generator has been multiplied by n and the product is Infinity
C16_Witness ==
    /\ pc = "s256_point_mul"
    /\ args.p = G
    /\ args.k = n
    /\ outcome = InfPoint

\* 0 <= num < prime
InField(fe) == fe.tag = "FieldElement" => (0 <= fe.num /\ fe.num < fe.prime)

\* the FieldElements of an outcome of the field specification
OutcomeElements ==
    IF pc \in {"field_add", "field_sub", "field_mul", "field_div", "field_div_mul"}
    THEN {outcome}
    ELSE IF pc = "field_pow" THEN {outcome.value}
    ELSE IF pc \in {"field_pow_inverse", "field_div_inverse"}
    THEN {outcome.inv, outcome.back, outcome.unit}
    ELSE {}

\* C17: every FieldElement / S256Field obtained through the public API
\* satisfies 0 <= num < prime: the values built by new, every arithmetic
\* result, and the coordinates of the points parse_sec returns
C17_FieldElementInRange ==
    /\ pc = "field_start" => (InField(args[1]) /\ InField(args[2]))
    /\ \A fe \in OutcomeElements : InField(fe)
    /\ pc = "s256_field_ops" =>
           (outcome.add < prime /\ outcome.sub < prime /\ outcome.mul < prime)
    /\ (pc = "sec_parsed" /\ decoded.tag = "NormalPoint") =>
           (decoded.x < prime /\ decoded.y < prime)

\* two elements of one field, both in [0, prime)
SameFieldOperands ==
    /\ args[1].prime = args[2].prime
    /\ args[1].num < args[1].prime
    /\ args[2].num < args[2].prime

\* C18: for operands a, b in [0, p), add, sub and mul return exactly
\* (a + b) mod p, (a - b) mod p and (a * b) mod p, also when a + b or a * b
\* exceeds the word width and when a < b; no intermediate value wraps
C18_FieldArithmeticExact ==
    LET a == args[1].num
        b == args[2].num
        p == args[1].prime
    IN  /\ (pc = "field_add" /\ SameFieldOperands)
               => outcome = FieldElement_new((a + b) % p, p)
        /\ (pc = "field_sub" /\ SameFieldOperands)
               => outcome = FieldElement_new(((a + p) - b) % p, p)
        /\ (pc = "field_mul" /\ SameFieldOperands)
               => outcome = FieldElement_new((a * b) % p, p)
        /\ (pc = "s256_field_ops" /\ SameFieldOperands)
               => /\ outcome.add = (a + b) % prime
                  /\ outcome.sub = ((a + prime) - b) % prime
                  /\ outcome.mul = (a * b) % prime

\* two operands in [0, p) whose product exceeds the word have been multiplied
C18_Witness ==
    /\ pc = "field_mul"
    /\ SameFieldOperands
    /\ args[1].num * args[2].num > MaxWord
    /\ outcome.tag = "FieldElement"

\* C19: for a nonzero a in [0, p), with the inverse taken as a.pow(-1) or as
\* 1 / a, the inverse of the inverse is a and a times its inverse is 1;
\* and (x / a) * a = x for every x of the field
C19_InverseRoundTrip ==
    /\ (/\ pc \in {"field_pow_inverse", "field_div_inverse"}
        /\ 0 < args[1].num /\ args[1].num < args[1].prime)
           => /\ outcome.back = args[1]
              /\ outcome.unit = FieldElement_new(1, args[1].prime)
    /\ (pc = "field_div_mul" /\ SameFieldOperands /\ 0 < args[2].num)
           => outcome = args[1]

\* an element other than 0 and 1 has been inverted by 1 / a, and its
\* inverse is another element
C19_Witness ==
    /\ pc = "field_div_inverse"
    /\ 1 < args[1].num /\ args[1].num < args[1].prime
    /\ outcome.inv.tag = "FieldElement"
    /\ outcome.inv # args[1]
    /\ outcome.back = args[1]

\* C20: add, sub, mul and div of two FieldElements of different primes all
\* end in the NotSamePrime failure and none returns a FieldElement
C20_DifferentPrimesFail ==
    (/\ pc \in {"field_add", "field_sub", "field_mul", "field_div"}
     /\ args[1].prime # args[2].prime)
        => outcome = NotSamePrime

\* the number of zero bytes before the first non-zero byte
RECURSIVE LeadingZeros(_)
LeadingZeros(bytes) ==
    IF bytes # <<>> /\ bytes[1] = 0 THEN 1 + LeadingZeros(Tail(bytes)) ELSE 0

\* the base-58 digits of v, most significant first, as alphabet characters
RECURSIVE Base58Number(_)
Base58Number(v) ==
    IF v = 0 THEN <<>>
    ELSE Base58Number(v \div 58) \o <<base58_alphabet[(v % 58) + 1]>>

\* C21: every copy of encode_base58 outputs one '1' per leading zero byte
\* of the payload, and none for a later zero byte, followed by the base-58
\* digits, most significant first, of the payload read big-endian
C21_Base58LeadingZeros ==
    pc \in {"encode_base58", "ec_encode_base58", "wallet_encode_base58"}
        => outcome = [i \in 1..LeadingZeros(args) |-> "1"]
                         \o Base58Number(from_bytes_be(args))

\* the number of bytes of the length varint at the head of input
VarintLen(input) == Len(input) - Len(Varint_parse(input).rest)

\* the script length that the varint at the head of input declares
DeclaredLen(input) == Varint_parse(input).value

\* the bytes of input that make up the script: the length varint and the
\* declared number of command bytes
ScriptWire(input) == SubSeq(input, 1, VarintLen(input) + DeclaredLen(input))

\* C22: for every byte string that Script::parse accepts, serialize of the
\* parsed script succeeds and returns the bytes of the input that make up
\* the script
C22_SerializeInvertsParse ==
    pc = "parsed_serialized"
        => outcome.serialize = SerializeOk(ScriptWire(args.input))

\* the signature of a pay-to-pubkey script verifies against its key for
\* the hash given to evaluate
P2pkVerifies == verify(args.key, args.hash.hash, args.sig) = "true"

\* C24: evaluate of <signature> <sec pubkey> OP_CHECKSIG with Some(hash)
\* returns Ok(true) when the signature verifies against the key for the
\* hash, and does not return Ok(true) when it does not
C24_PayToPubkeyEvaluates ==
    (pc = "evaluated" /\ "key" \in DOMAIN args)
        => (outcome = EvalOk(TRUE) <=> P2pkVerifies)

\* the index of the first opcode of cmds, 0 when it has none
FirstOpCode(cmds) ==
    IF \E i \in 1 .. Len(cmds) : cmds[i].tag = "OpCode"
    THEN CHOOSE i \in 1 .. Len(cmds) :
             /\ cmds[i].tag = "OpCode"
             /\ \A j \in 1 .. i - 1 : cmds[j].tag = "DataElement"
    ELSE 0

\* C25: evaluate reaches no unreachable branch, and a script whose first
\* opcode is one that OpCode::new does not know ends in
\* Err(OpCodeEvaluateError(code)) of that opcode
C25_UnknownOpcodeIsError ==
    (/\ pc = "evaluated"
     /\ FirstOpCode(args.cmds) # 0
     /\ args.cmds[FirstOpCode(args.cmds)].kind = "Unknown")
        => outcome = OpCodeEvaluateError(args.cmds[FirstOpCode(args.cmds)].num)

\* every data element of cmds has between 1 and 520 bytes
LegalElements(cmds) ==
    \A i \in 1 .. Len(cmds) :
        cmds[i].tag = "DataElement" => (Len(cmds[i].data) >= 1 /\ Len(cmds[i].data) <= 520)

\* C26: serialize succeeds on a script whose data elements have 1 to 520
\* bytes, fails with SerializeTooLongError only when an element is longer
\* than 520 bytes, and parse of the serialized bytes gives the commands back
C26_ParseInvertsSerialize ==
    /\ (pc = "serialized" /\ LegalElements(args.cmds)) => outcome.serialize.tag = "Ok"
    /\ (pc = "serialized" /\ outcome.serialize = ScriptErr("SerializeTooLongError"))
           => \E i \in 1 .. Len(args.cmds) :
                  args.cmds[i].tag = "DataElement" /\ Len(args.cmds[i].data) > 520
    /\ (pc = "serialized_parsed" /\ LegalElements(args.cmds))
           => (outcome.parse.tag = "Ok" /\ outcome.parse.cmds = args.cmds)

RECURSIVE CommandBytes(_, _)
\* the number of bytes that the first k commands at the head of bytes
\* occupy: the opcode, the length bytes of a push and the pushed data
CommandBytes(bytes, k) ==
    IF k = 0 THEN 0
    ELSE LET current == bytes[1]
             size == IF current >= 1 /\ current <= 75 THEN 1 + current
                     ELSE IF current = 76 THEN 2 + bytes[2]
                     ELSE IF current = 77 THEN 3 + bytes[2] + 256 * bytes[3]
                     ELSE 1
         IN  size + CommandBytes(SliceFrom(bytes, size), k - 1)

\* C27: Script::parse accepts an input only if the commands it decoded
\* occupy exactly the number of bytes that the length varint declares
C27_ParseCountsConsumedBytes ==
    (pc = "parsed" /\ outcome.parse.tag = "Ok")
        => CommandBytes(SliceFrom(args.input, VarintLen(args.input)),
                        Len(outcome.parse.cmds)) = DeclaredLen(args.input)

\* C28: on success the remainder that Script::parse returns is the input
\* without the length varint and the declared number of script bytes
C28_ParseRemainder ==
    (pc = "parsed" /\ outcome.parse.tag = "Ok")
        => outcome.parse.rest
               = SliceFrom(args.input, VarintLen(args.input) + DeclaredLen(args.input))

RECURSIVE PowMod(_, _, _)
\* a^e mod p by e multiplications
PowMod(a, e, p) == IF e = 0 THEN 1 % p ELSE (PowMod(a, e - 1, p) * a) % p

\* C29: for every prime p, every a in [0, p) and every exponent e >= 0,
\* a.pow(e) is a^e mod p; in particular 0.pow(e) is 0 for every e > 0
C29_PowIsExponentiation ==
    (/\ pc = "field_pow"
     /\ args[1].num < args[1].prime
     /\ outcome.exp >= 0)
        => outcome.value.num = PowMod(args[1].num, outcome.exp, args[1].prime)

\* the bytes of the input that parse consumed
TxConsumed == SubSeq(args.input, 1, Len(args.input) - Len(outcome.parse.rest))

\* C23: for every byte string that Transaction::parse accepts, serialize
\* of the parsed transaction is the prefix of the input that parse consumed
C23_TxSerializeInvertsParse ==
    pc = "tx_serialized" => outcome.serialize = TxConsumed

\* bytes is a serialized transaction: parse accepts all of it and serialize
\* gives it back
SerializedTx(bytes) ==
    LET parsed == Transaction_parse(bytes)
    IN  /\ parsed.tag = "Ok"
        /\ parsed.rest = <<>>
        /\ Transaction_serialize(parsed.value) = bytes

\* C30: Transaction::parse of a strict prefix of a serialized transaction
\* returns an error and does not panic
C30_TruncatedTxIsError ==
    (/\ pc = "tx_parsed"
     /\ SerializedTx(args.full)
     /\ Len(args.input) < Len(args.full)
     /\ args.input = SubSeq(args.full, 1, Len(args.input)))
        => outcome.parse.tag = "Err"

====
